---------------------------- MODULE Spec2Model ----------------------------
(***************************************************************************)
(* Pterodactyl -> UDM port-forward synchroniser.                           *)
(*                                                                         *)
(* Four specifications share this module:                                  *)
(*   Spec           the reconciliation engine (SyncService): its cycles    *)
(*                  driving an appliance through the UdmClient's CRUD      *)
(*                  mapping;                                               *)
(*   SpecScheduler  the scheduling of the cycles: start(), stop(), ticks   *)
(*                  that fire while a cycle runs;                          *)
(*   SpecClient     the UdmClient session protocol (ensureAuthenticated,   *)
(*                  authenticate, request) under concurrent requests;      *)
(*   SpecPure       the pure functions of SyncService, UdmClient and       *)
(*                  PterodactylClient (names, drift, payloads, response    *)
(*                  decoding, pagination, the login's token), applied to   *)
(*                  inputs drawn from bounded sets.                        *)
(*                                                                         *)
(* JavaScript strings that the code takes apart character by character     *)
(* (rule names, port strings) are sequences of one-character strings;      *)
(* strings the code only compares (IPs, protocols, filters) are atoms.     *)
(***************************************************************************)
EXTENDS Integers, Sequences, FiniteSets, TLC

(* ------------------------------ bounds -------------------------------- *)
\* longest rule list the appliance starts with
MaxRules == 2
\* longest allocation list the panel returns
MaxAllocs == 2
\* cycles started per behaviour
MaxCycles == 2
\* ticks skipped per behaviour
MaxSkips == 1

\* start() calls made on one service
MaxStarts == 2
\* remote calls (reads or mutations) that fail per behaviour
MaxFailures == 1

\* concurrent logical requests on one UdmClient
MaxRequests == 2
\* 401/403 responses the appliance gives per behaviour
MaxAuthErrors == 2
\* login calls that fail per behaviour
MaxLoginFailures == 1

\* longest configured name prefix tried on the naming functions
MaxPrefixLen == 2
\* longest rule name tried on parseAllocationId
MaxNameLen == 3
\* largest allocation id tried on buildRuleName
MaxId == 11
\* records in one response body
MaxRecords == 2
\* pages the panel may answer
MaxPages == 2
\* Set-Cookie headers of one login response
MaxCookies == 2

Null == "null"

(* --------------------------- string helpers --------------------------- *)
Digits == <<"0", "1", "2", "3", "4", "5", "6", "7", "8", "9">>

DigitSet == {Digits[i] : i \in 1..Len(Digits)}

DigitValue(c) == (CHOOSE i \in 1..Len(Digits) : Digits[i] = c) - 1

RECURSIVE NumberToString(_)
\* String(n) / `${n}` for a non-negative integer: canonical decimal digits
NumberToString(n) ==
    IF n < 10 THEN <<Digits[n + 1]>>
    ELSE NumberToString(n \div 10) \o <<Digits[(n % 10) + 1]>>

RECURSIVE ParseInt(_)
\* Number.parseInt(s, 10) on a non-empty all-digit string
ParseInt(s) ==
    IF Len(s) = 1 THEN DigitValue(s[1])
    ELSE ParseInt(SubSeq(s, 1, Len(s) - 1)) * 10 + DigitValue(s[Len(s)])

AllDigits(s) == \A i \in 1..Len(s) : s[i] \in DigitSet

\* String.prototype.startsWith
StartsWith(s, p) == Len(p) <= Len(s) /\ SubSeq(s, 1, Len(p)) = p

\* a[k] ?? d on an object whose key may be absent
Get(obj, k, d) == IF k \in DOMAIN obj THEN obj[k] ELSE d

\* { ...a, ...b }
Spread(a, b) ==
    [k \in (DOMAIN a) \cup (DOMAIN b) |-> IF k \in DOMAIN b THEN b[k] ELSE a[k]]

(* ------------------- SyncService: names and parsing ------------------- *)
RegExpSpecial ==
    {".", "*", "+", "?", "^", "$", "{", "}", "(", ")", "|", "[", "]", "\\"}

\* variant: the prefix goes into the pattern as it is
escapeRegExp_NoEscape(value) == value

RECURSIVE escapeRegExp(_)
escapeRegExp(value) ==
    IF value = <<>> THEN <<>>
    ELSE (IF Head(value) \in RegExpSpecial
            THEN <<"\\", Head(value)>>
            ELSE <<Head(value)>>) \o escapeRegExp(Tail(value))

RECURSIVE MatchPrefixPattern(_, _)
\* Anchored match of a pattern made of escaped characters, plain characters
\* and the wildcard "."; the result is the set holding the unmatched rest of
\* s, or {} when the pattern does not match.
MatchPrefixPattern(pat, s) ==
    IF pat = <<>> THEN {s}
    ELSE IF Head(pat) = "\\" /\ Len(pat) >= 2
      THEN IF s # <<>> /\ Head(s) = pat[2]
             THEN MatchPrefixPattern(SubSeq(pat, 3, Len(pat)), Tail(s))
             ELSE {}
    ELSE IF Head(pat) = "."
      THEN IF s # <<>> THEN MatchPrefixPattern(Tail(pat), Tail(s)) ELSE {}
    ELSE IF s # <<>> /\ Head(s) = Head(pat)
      THEN MatchPrefixPattern(Tail(pat), Tail(s))
      ELSE {}

buildRuleName(cfg, allocationId) == cfg.namePrefix \o NumberToString(allocationId)

\* variant: the digits are not required, a remainder that is no number is
\* kept as a key (NaN, here -1) instead of being reported unparseable
parseAllocationId_KeepsNaN(cfg, name) ==
    LET rest == MatchPrefixPattern(escapeRegExp(cfg.namePrefix), name)
    IN  IF rest = {} THEN [isNull |-> TRUE, value |-> 0]
        ELSE LET r == CHOOSE x \in rest : TRUE
             IN  IF r # <<>> /\ AllDigits(r)
                   THEN [isNull |-> FALSE, value |-> ParseInt(r)]
                   ELSE [isNull |-> FALSE, value |-> 0 - 1]

\* new RegExp(`^${escaped}(\d+)$`).exec(name), then Number.parseInt(match[1])
parseAllocationId(cfg, name) ==
    LET rest == MatchPrefixPattern(escapeRegExp(cfg.namePrefix), name)
    IN  IF rest = {} THEN [isNull |-> TRUE, value |-> 0]
        ELSE LET r == CHOOSE x \in rest : TRUE
             IN  IF r # <<>> /\ AllDigits(r)
                   THEN [isNull |-> FALSE, value |-> ParseInt(r)]
                   ELSE [isNull |-> TRUE, value |-> 0]

(* ------------------- SyncService: desired requests -------------------- *)
\* variant: with nothing configured the allocation's own IP is the target
resolveTargetIp_FallsBackToOwnIp(cfg, allocation) ==
    IF allocation.ip \in DOMAIN cfg.targetIpMap
      THEN cfg.targetIpMap[allocation.ip]
    ELSE IF allocation.ipAlias # Null /\ allocation.ipAlias \in DOMAIN cfg.targetIpMap
      THEN cfg.targetIpMap[allocation.ipAlias]
    ELSE IF cfg.defaultTargetIp # Null THEN cfg.defaultTargetIp
    ELSE allocation.ip

\* variant: the alias entry is looked up before the IP entry
resolveTargetIp_AliasFirst(cfg, allocation) ==
    IF allocation.ipAlias # Null /\ allocation.ipAlias \in DOMAIN cfg.targetIpMap
      THEN cfg.targetIpMap[allocation.ipAlias]
    ELSE IF allocation.ip \in DOMAIN cfg.targetIpMap
      THEN cfg.targetIpMap[allocation.ip]
    ELSE cfg.defaultTargetIp

resolveTargetIp(cfg, allocation) ==
    IF allocation.ip \in DOMAIN cfg.targetIpMap
      THEN cfg.targetIpMap[allocation.ip]
    ELSE IF allocation.ipAlias # Null /\ allocation.ipAlias \in DOMAIN cfg.targetIpMap
      THEN cfg.targetIpMap[allocation.ipAlias]
    ELSE cfg.defaultTargetIp

\* variant: the rule forwards to the allocation's own (external) IP
buildPortForwardRequest_ForwardsToOwnIp(cfg, allocation) ==
    LET targetIp == resolveTargetIp(cfg, allocation)
    IN  IF targetIp = Null THEN <<>>
        ELSE <<[name |-> buildRuleName(cfg, allocation.id),
              enabled |-> TRUE,
              externalPort |-> allocation.port,
              internalPort |-> allocation.port,
              internalIp |-> allocation.ip,
              protocol |-> cfg.protocol,
              source |-> cfg.source,
              destination |-> cfg.destination,
              wanIp |-> cfg.wanIp]>>

\* `PortForwardRequest | null` as a sequence: <<>> is null, <<r>> the request r
buildPortForwardRequest(cfg, allocation) ==
    LET targetIp == resolveTargetIp(cfg, allocation)
    IN  IF targetIp = Null THEN <<>>
        ELSE <<[name |-> buildRuleName(cfg, allocation.id),
              enabled |-> TRUE,
              externalPort |-> allocation.port,
              internalPort |-> allocation.port,
              internalIp |-> targetIp,
              protocol |-> cfg.protocol,
              source |-> cfg.source,
              destination |-> cfg.destination,
              wanIp |-> cfg.wanIp]>>

\* variant: the destination filter is not compared
isRuleOutOfSync_IgnoresDestination(rule, target) ==
    \/ rule.internalIp # target.internalIp
    \/ rule.internalPort # NumberToString(target.internalPort)
    \/ rule.externalPort # NumberToString(target.externalPort)
    \/ ~rule.enabled /\ target.enabled
    \/ rule.protocol # target.protocol
    \/ rule.source # target.source
    \/ (IF rule.wanIp = Null THEN "any" ELSE rule.wanIp) # target.wanIp

\* variant: any difference of the enabled flags is drift
isRuleOutOfSync_EnabledSymmetric(rule, target) ==
    \/ rule.internalIp # target.internalIp
    \/ rule.internalPort # NumberToString(target.internalPort)
    \/ rule.externalPort # NumberToString(target.externalPort)
    \/ rule.enabled # target.enabled
    \/ rule.protocol # target.protocol
    \/ rule.source # target.source
    \/ rule.destination # target.destination
    \/ (IF rule.wanIp = Null THEN "any" ELSE rule.wanIp) # target.wanIp

\* variant: the rule's port strings are parsed before they are compared
isRuleOutOfSync_NumericPorts(rule, target) ==
    \/ rule.internalIp # target.internalIp
    \/ ParseInt(rule.internalPort) # target.internalPort
    \/ ParseInt(rule.externalPort) # target.externalPort
    \/ ~rule.enabled /\ target.enabled
    \/ rule.protocol # target.protocol
    \/ rule.source # target.source
    \/ rule.destination # target.destination
    \/ (IF rule.wanIp = Null THEN "any" ELSE rule.wanIp) # target.wanIp

isRuleOutOfSync(rule, target) ==
    \/ rule.internalIp # target.internalIp
    \/ rule.internalPort # NumberToString(target.internalPort)
    \/ rule.externalPort # NumberToString(target.externalPort)
    \/ ~rule.enabled /\ target.enabled
    \/ rule.protocol # target.protocol
    \/ rule.source # target.source
    \/ rule.destination # target.destination
    \/ (IF rule.wanIp = Null THEN "any" ELSE rule.wanIp) # target.wanIp

(* ---------------------- UdmClient: wire mapping ----------------------- *)
serializeProtocol(protocol) == protocol

toPayload(site, request) ==
    [name |-> request.name,
     enabled |-> request.enabled,
     proto |-> serializeProtocol(request.protocol),
     dst_port |-> NumberToString(request.externalPort),
     fwd_port |-> NumberToString(request.internalPort),
     fwd |-> request.internalIp,
     src |-> request.source,
     dst |-> request.destination,
     wanip |-> request.wanIp,
     site_id |-> site]

\* String.prototype.toLowerCase on the proto values of the model: the
\* spellings with capitals map to their lower-case string, all others are
\* in lower case already
toLowerCase(value) ==
    CASE value \in {"TCP", "Tcp"} -> "tcp"
      [] value \in {"UDP", "Udp"} -> "udp"
      [] value \in {"BOTH", "Both"} -> "both"
      [] value \in {"TCP_UDP", "Tcp_Udp"} -> "tcp_udp"
      [] value \in {"TCP-UDP", "Tcp-Udp"} -> "tcp-udp"
      [] value \in {"ICMP", "Icmp"} -> "icmp"
      [] OTHER -> value

\* variant: the switch is on the value as received
normalizeProtocol_CaseSensitive(value) ==
    IF value = Null \/ value = "" THEN "tcp"
    ELSE IF value = "tcp" THEN "tcp"
    ELSE IF value = "udp" THEN "udp"
    ELSE IF value \in {"both", "tcp_udp", "tcp-udp"} THEN "tcp_udp"
    ELSE "tcp"

\* `if (!value) return 'tcp'; switch (value.toLowerCase())`
normalizeProtocol(value) ==
    IF value = Null \/ value = "" THEN "tcp"
    ELSE IF toLowerCase(value) = "tcp" THEN "tcp"
    ELSE IF toLowerCase(value) = "udp" THEN "udp"
    ELSE IF toLowerCase(value) \in {"both", "tcp_udp", "tcp-udp"} THEN "tcp_udp"
    ELSE "tcp"

mapRawToRule(raw) ==
    [id |-> raw._id,
     name |-> Get(raw, "name", <<>>),
     enabled |-> Get(raw, "enabled", TRUE),
     externalPort |-> Get(raw, "dst_port", <<>>),
     internalPort |-> Get(raw, "fwd_port", <<>>),
     internalIp |-> Get(raw, "fwd", ""),
     protocol |-> normalizeProtocol(Get(raw, "proto", Null)),
     source |-> Get(raw, "src", "any"),
     destination |-> Get(raw, "dst", "any"),
     wanIp |-> Get(raw, "wanip", Null),
     raw |-> raw]

\* variant: the stored record's fields win over the desired ones
updatePayload_RawWins(site, rule, request) ==
    Spread(Spread(toPayload(site, request), rule.raw), [_id |-> rule.id])

\* the body updatePortForward sends: { ...rule.raw, ...toPayload(request), _id }
updatePayload(site, rule, request) ==
    Spread(Spread(rule.raw, toPayload(site, request)), [_id |-> rule.id])

\* the call updatePortForward issues: PUT `${siteEndpoint}/${rule.id}`
updatePortForwardRequest(site, rule, request) ==
    [method |-> "PUT",
     url |-> [siteEndpoint |-> site, id |-> rule.id],
     data |-> updatePayload(site, rule, request)]

(* -------------------- UdmClient: response decoding -------------------- *)
\* Response bodies are JSON values tagged with their JavaScript type; the
\* fields of an object are a record, whose `data` member is again tagged.
Undefined == [type |-> "undefined"]

JsonString == [type |-> "string"]

JsonArray(items) == [type |-> "array", items |-> items]

JsonObject(fields) == [type |-> "object", fields |-> fields]

\* Array.isArray(value)
isArray(value) == value.type = "array"

\* !value is false for objects, arrays and the non-empty string
Truthy(value) == value.type # "undefined"

\* value.key, value?.key
Member(value, key) ==
    IF value.type = "object" /\ key \in DOMAIN value.fields
      THEN value.fields[key]
      ELSE Undefined

\* the properties mapRawToRule reads off a value
RawOf(value) == IF value.type = "object" THEN value.fields ELSE <<>>

Throw(message) == [threw |-> TRUE, error |-> message]

Return(value) == [threw |-> FALSE, value |-> value]

\* variant: a record directly under `data` is not accepted
unwrapSingle_CollectionOnly(payload) ==
    IF ~Truthy(payload) THEN Throw("Unexpected empty response from UDM Pro API")
    ELSE IF isArray(Member(payload, "data"))
      THEN IF Len(Member(payload, "data").items) = 0
             THEN Throw("UDM Pro API returned an empty collection")
             ELSE Return(Member(payload, "data").items[1])
    ELSE Throw("UDM Pro API response missing data")

\* variant: a body without `data` is taken as the record itself
unwrapSingle_AcceptsBare(payload) ==
    IF ~Truthy(payload) THEN Throw("Unexpected empty response from UDM Pro API")
    ELSE IF isArray(Member(payload, "data"))
      THEN IF Len(Member(payload, "data").items) = 0
             THEN Throw("UDM Pro API returned an empty collection")
             ELSE Return(Member(payload, "data").items[1])
    ELSE IF ~Truthy(Member(payload, "data")) THEN Return(payload)
    ELSE Return(Member(payload, "data"))

unwrapSingle(payload) ==
    IF ~Truthy(payload) THEN Throw("Unexpected empty response from UDM Pro API")
    ELSE IF isArray(Member(payload, "data"))
      THEN IF Len(Member(payload, "data").items) = 0
             THEN Throw("UDM Pro API returned an empty collection")
             ELSE Return(Member(payload, "data").items[1])
    ELSE IF ~Truthy(Member(payload, "data"))
      THEN Throw("UDM Pro API response missing data")
    ELSE Return(Member(payload, "data"))

\* mapRawToRule: `if (!raw._id) throw`
missingIdentifier(raw) == "_id" \notin DOMAIN raw \/ raw._id = ""

\* createPortForward / updatePortForward on the response body:
\* `const raw = this.unwrapSingle(response.data); return this.mapRawToRule(raw)`
singleRuleResult(body) ==
    LET unwrapped == unwrapSingle(body) IN
    IF unwrapped.threw THEN unwrapped
    ELSE IF missingIdentifier(RawOf(unwrapped.value))
      THEN Throw("Encountered port forward entry without an identifier")
    ELSE Return(mapRawToRule(RawOf(unwrapped.value)))

\* variant: only an enveloped collection is listed
listPayload_EnvelopeOnly(body) ==
    IF isArray(Member(body, "data")) THEN Member(body, "data").items ELSE <<>>

\* listPortForwards: the records of a flat array or of `data`, else none
listPayload(body) ==
    IF isArray(body) THEN body.items
    ELSE IF isArray(Member(body, "data")) THEN Member(body, "data").items
    ELSE <<>>

\* listPortForwards: `payload.map((raw) => this.mapRawToRule(raw))`
listPortForwardsResult(body) ==
    LET payload == listPayload(body) IN
    IF \E i \in 1..Len(payload) : missingIdentifier(RawOf(payload[i]))
      THEN Throw("Encountered port forward entry without an identifier")
      ELSE Return([i \in 1..Len(payload) |-> mapRawToRule(RawOf(payload[i]))])

(* ----------------- PterodactylClient: listAllocations ------------------ *)
\* The panel is the sequence of its answers to page 1, 2, ...: a failed call,
\* or a payload with `data` and, optionally, meta.pagination (a sequence of
\* at most one record).  A page past the sequence is a failed call.
FailedCall == [type |-> "error"]

Page(data, pagination) == [type |-> "page", data |-> data, pagination |-> pagination]

\* the answer to GET /nodes/<id>/allocations?page=<page>
PageOf(panel, page) == IF page \in 1..Len(panel) THEN panel[page] ELSE FailedCall

\* payload.data.map((item) => ({ id: item.attributes.id, ... }))
mapAllocations(items) ==
    [i \in 1..Len(items) |->
        [id |-> items[i].attributes.id,
         ip |-> items[i].attributes.ip,
         ipAlias |-> items[i].attributes.ip_alias,
         port |-> items[i].attributes.port,
         notes |-> items[i].attributes.notes,
         isDefault |-> items[i].attributes.is_default]]

\* variant: the loop goes on until the current page is past the total
isLastPage_StrictlyPast(pagination) ==
    pagination = <<>> \/ pagination[1].current_page > pagination[1].total_pages

\* `!pagination || pagination.current_page >= pagination.total_pages`
isLastPage(pagination) ==
    pagination = <<>> \/ pagination[1].current_page >= pagination[1].total_pages

RECURSIVE fetchPages(_, _, _)
\* the `while (true)` loop of listAllocations from currentPage on, with the
\* allocations pushed so far; `pages` are the pages requested
fetchPages(panel, currentPage, allocations) ==
    LET payload == PageOf(panel, currentPage) IN
    IF payload.type = "error"
      THEN [threw |-> TRUE, error |-> "request failed", pages |-> <<currentPage>>]
    ELSE IF ~isArray(payload.data)
      THEN [threw |-> TRUE,
            error |-> "Unexpected payload when fetching allocations from Pterodactyl",
            pages |-> <<currentPage>>]
    ELSE IF isLastPage(payload.pagination)
      THEN [threw |-> FALSE,
            value |-> allocations \o mapAllocations(payload.data.items),
            pages |-> <<currentPage>>]
    ELSE LET rest == fetchPages(panel, currentPage + 1,
                                allocations \o mapAllocations(payload.data.items))
         IN  [rest EXCEPT !.pages = <<currentPage>> \o @]

listAllocations(panel) == fetchPages(panel, 1, <<>>)

(* -------------------- UDM appliance (rule store) ----------------------- *)
\* DELETE <endpoint>/<id>
ApplianceDelete(rules, id) == SelectSeq(rules, LAMBDA r : r._id # id)

\* PUT <endpoint>/<id> with the merged body: the record is replaced in place
ApplianceUpdate(rules, id, payload) ==
    [i \in 1..Len(rules) |-> IF rules[i]._id = id THEN payload ELSE rules[i]]

\* POST <endpoint>: the appliance stores the body under a fresh identifier
ApplianceCreate(rules, payload, newId) ==
    Append(rules, Spread(payload, [_id |-> newId]))

(* --------------------------- Map<number, T> --------------------------- *)
\* A JavaScript Map as the sequence of its entries in insertion order.
MapHas(m, k) == \E i \in 1..Len(m) : m[i].key = k

MapGet(m, k) == m[CHOOSE i \in 1..Len(m) : m[i].key = k].value

\* Map.prototype.set: an existing key keeps its position and takes the value
MapSet(m, k, v) ==
    IF MapHas(m, k)
      THEN [i \in 1..Len(m) |-> IF m[i].key = k THEN [key |-> k, value |-> v] ELSE m[i]]
      ELSE Append(m, [key |-> k, value |-> v])

MapKeys(m) == {m[i].key : i \in 1..Len(m)}

(* -------------------- SyncService: reconciliation --------------------- *)
RECURSIVE extractRelevantRules_FirstWins(_, _)
\* variant: the first rule of an allocation id is kept
extractRelevantRules_FirstWins(cfg, rules) ==
    IF rules = <<>> THEN <<>>
    ELSE LET before == extractRelevantRules_FirstWins(cfg, SubSeq(rules, 1, Len(rules) - 1))
             rule == rules[Len(rules)]
             maybeId == parseAllocationId(cfg, rule.name)
         IN  IF ~StartsWith(rule.name, cfg.namePrefix) THEN before
             ELSE IF maybeId.isNull THEN before
             ELSE IF MapHas(before, maybeId.value) THEN before
             ELSE MapSet(before, maybeId.value, rule)

RECURSIVE extractRelevantRules(_, _)
\* for (const rule of rules) { startsWith? parse? relevant.set(id, rule) }
extractRelevantRules(cfg, rules) ==
    IF rules = <<>> THEN <<>>
    ELSE LET before == extractRelevantRules(cfg, SubSeq(rules, 1, Len(rules) - 1))
             rule == rules[Len(rules)]
             maybeId == parseAllocationId(cfg, rule.name)
         IN  IF ~StartsWith(rule.name, cfg.namePrefix) THEN before
             ELSE IF maybeId.isNull THEN before
             ELSE MapSet(before, maybeId.value, rule)

\* the console.warn calls of extractRelevantRules, in order
UnparseableWarnings(cfg, rules) ==
    LET bad == SelectSeq(rules, LAMBDA r :
                   StartsWith(r.name, cfg.namePrefix)
                   /\ parseAllocationId(cfg, r.name).isNull)
    IN  [i \in 1..Len(bad) |-> [kind |-> "unparseable", name |-> bad[i].name]]

\* variant: the allocation list is used as fetched, repeated ids included
desiredAllocations_NoDedup(allocs) ==
    [i \in 1..Len(allocs) |-> [key |-> allocs[i].id, value |-> allocs[i]]]

RECURSIVE desiredAllocations(_)
\* allocations.forEach((allocation) => desiredAllocations.set(allocation.id, allocation))
desiredAllocations(allocs) ==
    IF allocs = <<>> THEN <<>>
    ELSE MapSet(desiredAllocations(SubSeq(allocs, 1, Len(allocs) - 1)),
                allocs[Len(allocs)].id, allocs[Len(allocs)])

\* first loop of reconcileRules: rules whose allocation is gone
toDelete(cfg, desired, relevant) ==
    LET gone == SelectSeq(relevant, LAMBDA e : ~MapHas(desired, e.key))
    IN  [i \in 1..Len(gone) |-> gone[i].value]

\* first loop of reconcileRules: rules whose allocation resolves and drifted
toUpdate(cfg, desired, relevant) ==
    LET drift == SelectSeq(relevant, LAMBDA e :
                     /\ MapHas(desired, e.key)
                     /\ buildPortForwardRequest(cfg, MapGet(desired, e.key)) # <<>>
                     /\ isRuleOutOfSync(e.value,
                            buildPortForwardRequest(cfg, MapGet(desired, e.key))[1]))
    IN  [i \in 1..Len(drift) |->
            [rule |-> drift[i].value,
             input |-> buildPortForwardRequest(cfg, MapGet(desired, drift[i].key))[1]]]

\* variant: an allocation with a rule leaves the map even when its target
\* does not resolve
HandledIds_IncludesSkipped(cfg, desired, relevant) ==
    {e.key : e \in {relevant[i] : i \in 1..Len(relevant)}} \cap MapKeys(desired)

\* variant: no allocation ever leaves the map
HandledIds_NothingDeleted(cfg, desired, relevant) == {}

\* allocations.delete(allocationId): reached only past both `continue`s
HandledIds(cfg, desired, relevant) ==
    {e.key : e \in {relevant[i] : i \in 1..Len(relevant)}}
      \cap {k \in MapKeys(desired) :
               buildPortForwardRequest(cfg, MapGet(desired, k)) # <<>>}

\* second loop of reconcileRules: the allocations left in the map
toCreate(cfg, desired, relevant) ==
    LET left == SelectSeq(desired, LAMBDA e :
                    /\ e.key \notin HandledIds(cfg, desired, relevant)
                    /\ buildPortForwardRequest(cfg, e.value) # <<>>)
    IN  [i \in 1..Len(left) |->
            [allocation |-> left[i].value,
             input |-> buildPortForwardRequest(cfg, left[i].value)[1]]]

\* the console.warn calls of reconcileRules, in order
ResolutionWarnings(cfg, desired, relevant) ==
    LET noUpdate == SelectSeq(relevant, LAMBDA e :
                        /\ MapHas(desired, e.key)
                        /\ buildPortForwardRequest(cfg, MapGet(desired, e.key)) = <<>>)
        noCreate == SelectSeq(desired, LAMBDA e :
                        /\ e.key \notin HandledIds(cfg, desired, relevant)
                        /\ buildPortForwardRequest(cfg, e.value) = <<>>)
    IN  [i \in 1..Len(noUpdate) |-> [kind |-> "skipUpdate", id |-> noUpdate[i].key]]
        \o [i \in 1..Len(noCreate) |-> [kind |-> "skipCreate", id |-> noCreate[i].key]]

reconcileRules(cfg, allocs, rules) ==
    LET desired == desiredAllocations(allocs)
        relevant == extractRelevantRules(cfg, rules)
    IN  [toDelete |-> toDelete(cfg, desired, relevant),
         toUpdate |-> toUpdate(cfg, desired, relevant),
         toCreate |-> toCreate(cfg, desired, relevant)]

EmptyChangeSet == [toDelete |-> <<>>, toUpdate |-> <<>>, toCreate |-> <<>>]

DeleteCalls(cs) ==
    [i \in 1..Len(cs.toDelete) |-> [kind |-> "delete", id |-> cs.toDelete[i].id]]

UpdateCalls(cs) ==
    [i \in 1..Len(cs.toUpdate) |->
        [kind |-> "update", id |-> cs.toUpdate[i].rule.id,
         rule |-> cs.toUpdate[i].rule, input |-> cs.toUpdate[i].input]]

CreateCalls(cs) ==
    [i \in 1..Len(cs.toCreate) |-> [kind |-> "create", input |-> cs.toCreate[i].input]]

\* variant: the create loop runs first
applyChanges_CreateFirst(cs) == CreateCalls(cs) \o DeleteCalls(cs) \o UpdateCalls(cs)

\* the udmClient calls of applyChanges, in the order its three loops make them
applyChanges(cs) == DeleteCalls(cs) \o UpdateCalls(cs) \o CreateCalls(cs)

(* ------------------------------ inputs -------------------------------- *)
NamePrefix == <<"p", "-">>

\* config.udm: the default target IP may be unset; 198.51.100.10 is mapped
Configs ==
    {[namePrefix |-> NamePrefix, site |-> "default", protocol |-> "tcp_udp",
      source |-> "any", destination |-> "any", wanIp |-> "any",
      targetIpMap |-> ("198.51.100.10" :> "10.0.1.20"),
      defaultTargetIp |-> d] : d \in {Null, "10.0.1.10"}}

\* The panel's allocation records: the id is the identity of an allocation,
\* so a list that repeats an id repeats the same record.  Allocation 1
\* resolves through the IP map, allocation 2 only through the default.
AllocIds == {1, 2}

Panel(id) ==
    IF id = 1
      THEN [id |-> 1, ip |-> "198.51.100.10", ipAlias |-> Null, port |-> 25,
            notes |-> Null, isDefault |-> FALSE]
      ELSE [id |-> id, ip |-> "203.0.113.20", ipAlias |-> Null, port |-> 7,
            notes |-> Null, isDefault |-> FALSE]

AllocLists ==
    UNION {[1..n -> {Panel(id) : id \in AllocIds}] : n \in 0..MaxAllocs}

\* Rule records as the appliance holds them (without _id): a rule in sync
\* with allocation 1, a drifted duplicate of it spelled with a leading zero,
\* a rule in sync with allocation 2 under the default target (no wanip key,
\* proto "both"), a rule of an allocation the panel never lists, a managed
\* name that does not parse, and a rule outside the prefix.  A list may hold
\* the same template twice: two records of one name.
InSync1 ==
    [name |-> <<"p", "-", "1">>, enabled |-> TRUE, proto |-> "tcp_udp",
     dst_port |-> <<"2", "5">>, fwd_port |-> <<"2", "5">>, fwd |-> "10.0.1.20",
     src |-> "any", dst |-> "any", wanip |-> "any", site_id |-> "default"]

Drifted ==
    [name |-> <<"p", "-", "1">>, enabled |-> FALSE, proto |-> "tcp",
     dst_port |-> <<"4", "0">>, fwd_port |-> <<"4", "0">>, fwd |-> "10.0.9.9",
     src |-> "any", dst |-> "any", wanip |-> "wan", site_id |-> "default"]

InSync2 ==
    [name |-> <<"p", "-", "2">>, enabled |-> TRUE, proto |-> "both",
     dst_port |-> <<"7">>, fwd_port |-> <<"7">>, fwd |-> "10.0.1.10",
     src |-> "any", dst |-> "any", site_id |-> "default", note |-> "kept"]

RuleTemplates ==
    {InSync1,
     [Drifted EXCEPT !.name = <<"p", "-", "0", "1">>],
     InSync2,
     [Drifted EXCEPT !.name = <<"p", "-", "3">>],
     [InSync1 EXCEPT !.name = <<"p", "-", "x">>],
     [InSync1 EXCEPT !.name = <<"q", "-", "1">>]}

\* initial rule lists: the appliance numbers its records
RuleLists ==
    UNION {{[i \in 1..n |-> Spread(t[i], [_id |-> i])] : t \in [1..n -> RuleTemplates]}
             : n \in 0..MaxRules}

(* ------------------------------- state -------------------------------- *)
VARIABLES
    config,          \* AppConfig (udm part)
    allocations,     \* what listAllocations returns
    applianceRules,  \* the appliance's port-forward records (wire shape)
    nextRuleId,      \* next identifier the appliance hands out
    intervalRef,     \* SyncService.intervalRef # null
    syncing,         \* SyncService.syncing
    allocRead,       \* listAllocations of the running cycle: idle/pending/ok
    rulesRead,       \* listPortForwards of the running cycle: idle/pending/ok
    fetchedAllocs,   \* result of the cycle's listAllocations
    fetchedRules,    \* result of the cycle's listPortForwards
    changeSet,       \* toDelete/toUpdate/toCreate of the latest reconcile
    reconciled,      \* reconcileRules of the latest cycle has computed changeSet
    inflight,        \* indexes of applyChanges calls awaiting their response
    callLog,         \* mutations issued by the latest cycle, in order
    warnLog,         \* resolution/parse warnings of the latest cycle
    outcome,         \* latest cycle: none/running/ok/failed
    prevOutcome,     \* outcome of the cycle before the latest one
    cycles,          \* cycles started
    skipped,         \* ticks skipped ("Previous cycle still running")
    ticks,           \* runSyncCycle invocations (start() and timer)
    reads,           \* remote reads issued (both lists)
    failures,        \* remote calls that failed
    active,          \* runSyncCycle invocations between flag set and `finally`
    outstanding,     \* calls a failed applyChanges left, until the next plan is made
    starts,          \* start() calls made
    timers,          \* interval timers installed and not cleared
    csrfToken,       \* UdmClient.csrfToken (NoToken is null)
    csrfHeader,      \* http.defaults.headers.common['X-CSRF-Token']
    jar,             \* UdmClient.jar: the session cookies held
    loginPromise,    \* UdmClient.loginPromise (NoLogin is null), else the login's number
    loginCalls,      \* POST /api/auth/login calls made
    loginFailures,   \* login calls that failed
    authErrors,      \* 401/403 responses received
    req,             \* per logical request: position and history
    pureCall,        \* the pure function applied, with its arguments
    pureResult       \* what it returned

engineVars ==
    <<config, allocations, applianceRules, nextRuleId, intervalRef, syncing,
      allocRead, rulesRead, fetchedAllocs, fetchedRules, changeSet, reconciled,
      inflight, callLog, warnLog, outcome, prevOutcome, cycles, skipped, ticks,
      reads, failures, active, outstanding, starts, timers>>

\* what only start() and stop() write
schedVars == <<starts, timers>>

clientVars ==
    <<csrfToken, csrfHeader, jar, loginPromise, loginCalls, loginFailures,
      authErrors, req>>

pureVars == <<pureCall, pureResult>>

vars == <<engineVars, clientVars, pureVars>>

NoToken == 0

NoLogin == 0

\* error.response?.status of a failure without response (timeout, network
\* error, non-Axios error); also a request that got no response yet
NoStatus == 0

Requests == 1..MaxRequests

\* a UdmClient after construction, no request made yet
InitClient ==
    /\ csrfToken = NoToken
    /\ csrfHeader = NoToken
    /\ jar = {}
    /\ loginPromise = NoLogin
    /\ loginCalls = 0
    /\ loginFailures = 0
    /\ authErrors = 0
    /\ req = [p \in Requests |->
                [pc |-> "idle", attempt |-> 0, sends |-> 0, sentToken |-> NoToken,
                 sentCookies |-> {}, waited |-> "no", authSeen |-> 0, reStarted |-> 0, reJoined |-> 0,
                 status |-> NoStatus]]

NoOutstanding == [state |-> "none", calls |-> <<>>]

\* a SyncService after construction, over the given inputs
InitService(configs, allocLists, ruleLists) ==
    /\ config \in configs
    /\ allocations \in allocLists
    /\ applianceRules \in ruleLists
    /\ nextRuleId = Len(applianceRules) + 1
    /\ intervalRef = FALSE
    /\ syncing = FALSE
    /\ allocRead = "idle"
    /\ rulesRead = "idle"
    /\ fetchedAllocs = <<>>
    /\ fetchedRules = <<>>
    /\ changeSet = EmptyChangeSet
    /\ reconciled = FALSE
    /\ inflight = {}
    /\ callLog = <<>>
    /\ warnLog = <<>>
    /\ outcome = "none"
    /\ prevOutcome = "none"
    /\ cycles = 0
    /\ skipped = 0
    /\ ticks = 0
    /\ reads = 0
    /\ failures = 0
    /\ active = 0
    /\ outstanding = NoOutstanding
    /\ starts = 0
    /\ timers = 0

\* no pure function applied
InitPure ==
    /\ pureCall = [fn |-> "none"]
    /\ pureResult = Null

InitEngine == InitService(Configs, AllocLists, RuleLists) /\ InitClient /\ InitPure

(* ----------------------- SyncService: the cycle ----------------------- *)
\* variant: no `if (this.syncing)` guard, every tick starts a cycle
runSyncCycle_NoGuard ==
    /\ ticks' = ticks + 1
    /\ cycles < MaxCycles
    /\ syncing' = TRUE
    /\ active' = active + 1
    /\ cycles' = cycles + 1
    /\ allocRead' = "pending"
    /\ rulesRead' = "pending"
    /\ reads' = reads + 2
    /\ fetchedAllocs' = <<>>
    /\ fetchedRules' = <<>>
    /\ changeSet' = EmptyChangeSet
    /\ reconciled' = FALSE
    /\ inflight' = {}
    /\ callLog' = <<>>
    /\ warnLog' = <<>>
    /\ prevOutcome' = outcome
    /\ outcome' = "running"
    /\ UNCHANGED skipped

\* runSyncCycle up to its first await: the guard, the flag, the two reads
runSyncCycle ==
    /\ ticks' = ticks + 1
    /\ IF syncing
         THEN /\ skipped < MaxSkips
              /\ skipped' = skipped + 1
              /\ UNCHANGED <<syncing, allocRead, rulesRead, fetchedAllocs,
                             fetchedRules, changeSet, reconciled, inflight,
                             callLog, warnLog, outcome, prevOutcome, cycles, reads,
                             active>>
         ELSE /\ cycles < MaxCycles
              /\ syncing' = TRUE
              /\ active' = active + 1
              /\ cycles' = cycles + 1
              /\ allocRead' = "pending"
              /\ rulesRead' = "pending"
              /\ reads' = reads + 2
              /\ fetchedAllocs' = <<>>
              /\ fetchedRules' = <<>>
              /\ changeSet' = EmptyChangeSet
              /\ reconciled' = FALSE
              /\ inflight' = {}
              /\ callLog' = <<>>
              /\ warnLog' = <<>>
              /\ prevOutcome' = outcome
              /\ outcome' = "running"
              /\ UNCHANGED skipped

\* variant: start() without the early return, every call runs a cycle and
\* installs a timer
Start_NoGuard ==
    /\ starts < MaxStarts
    /\ starts' = starts + 1
    /\ runSyncCycle
    /\ intervalRef' = TRUE
    /\ timers' = timers + 1
    /\ UNCHANGED <<pureVars, clientVars, config, outstanding, allocations, applianceRules, nextRuleId, failures>>

\* start(): return when a timer is installed; otherwise execute() at once
\* and setInterval(execute, pollIntervalMs)
Start ==
    /\ starts < MaxStarts
    /\ starts' = starts + 1
    /\ IF intervalRef
         THEN UNCHANGED <<intervalRef, timers, syncing, allocRead, rulesRead,
                          fetchedAllocs, fetchedRules, changeSet, reconciled,
                          inflight, callLog, warnLog, outcome, prevOutcome, cycles,
                          skipped, ticks, reads, active>>
         ELSE /\ runSyncCycle
              /\ intervalRef' = TRUE
              /\ timers' = timers + 1
    /\ UNCHANGED <<pureVars, clientVars, config, outstanding, allocations, applianceRules, nextRuleId, failures>>

\* the start() that finds the service stopped
FirstStart ==
    /\ ~intervalRef
    /\ Start

\* stop(): clearInterval when a timer is installed
Stop ==
    /\ intervalRef' = FALSE
    /\ timers' = IF intervalRef THEN timers - 1 ELSE timers
    /\ UNCHANGED <<pureVars, clientVars, starts, config, outstanding, allocations, applianceRules, nextRuleId, syncing,
                   allocRead, rulesRead, fetchedAllocs, fetchedRules, changeSet,
                   reconciled, inflight, callLog, warnLog, outcome, prevOutcome,
                   cycles, skipped, ticks, reads, failures, active>>

\* variant: stop() drops the reference without clearInterval, the timer
\* keeps firing
TimerTick_AfterStop ==
    /\ runSyncCycle
    /\ UNCHANGED <<pureVars, clientVars, schedVars, config, outstanding, allocations, applianceRules,
                   nextRuleId, intervalRef, failures>>

\* the interval timer fires execute()
TimerTick ==
    /\ intervalRef
    /\ runSyncCycle
    /\ UNCHANGED <<pureVars, clientVars, schedVars, config, outstanding, allocations, applianceRules, nextRuleId, intervalRef,
                   failures>>

\* the `finally` of runSyncCycle after a completed cycle
CycleCompleted ==
    /\ syncing' = FALSE
    /\ active' = active - 1
    /\ outcome' = "ok"
    /\ inflight' = {}
    /\ outstanding' = [state |-> IF outstanding.state \in {"partial", "recovering"}
                                   THEN "recovered"
                                   ELSE "none",
                       calls |-> <<>>]

\* continuation of Promise.all: extractRelevantRules, reconcileRules, and
\* applyChanges up to its first awaited call
AfterReads(allocs, rules) ==
    LET cs == reconcileRules(config, allocs, rules)
        calls == applyChanges(cs)
    IN  /\ changeSet' = cs
        /\ reconciled' = TRUE
        /\ warnLog' = UnparseableWarnings(config, rules)
                        \o ResolutionWarnings(config, desiredAllocations(allocs),
                                              extractRelevantRules(config, rules))
        /\ IF calls = <<>>
             THEN /\ CycleCompleted
                  /\ callLog' = <<>>
             ELSE /\ inflight' = {1}
                  /\ callLog' = <<calls[1]>>
                  /\ outstanding' = [state |-> IF outstanding.state = "partial"
                                                THEN "recovering"
                                                ELSE "none",
                                    calls |-> <<>>]
                  /\ UNCHANGED <<syncing, outcome, active>>

\* variant: the plan is made as soon as the allocations are in, with
\* whatever rules have been read
AllocationsListed_NoWait ==
    /\ syncing /\ allocRead = "pending"
    /\ allocRead' = "ok"
    /\ fetchedAllocs' = allocations
    /\ AfterReads(allocations, fetchedRules)
    /\ UNCHANGED <<pureVars, clientVars, schedVars, config, allocations, applianceRules, nextRuleId, intervalRef,
                   rulesRead, fetchedRules, prevOutcome, cycles, skipped, ticks,
                   reads, failures>>

\* listAllocations resolves
AllocationsListed ==
    /\ syncing /\ allocRead = "pending"
    /\ allocRead' = "ok"
    /\ fetchedAllocs' = allocations
    /\ IF rulesRead = "ok"
         THEN AfterReads(allocations, fetchedRules)
         ELSE UNCHANGED <<changeSet, reconciled, warnLog, inflight, callLog,
                          syncing, outcome, active, outstanding>>
    /\ UNCHANGED <<pureVars, clientVars, schedVars, config, allocations, applianceRules, nextRuleId, intervalRef,
                   rulesRead, fetchedRules, prevOutcome, cycles, skipped, ticks,
                   reads, failures>>

\* listPortForwards resolves: payload.map(mapRawToRule)
PortForwardsListed ==
    /\ syncing /\ rulesRead = "pending"
    /\ rulesRead' = "ok"
    /\ fetchedRules' = [i \in 1..Len(applianceRules) |-> mapRawToRule(applianceRules[i])]
    /\ IF allocRead = "ok"
         THEN AfterReads(fetchedAllocs, fetchedRules')
         ELSE UNCHANGED <<changeSet, reconciled, warnLog, inflight, callLog,
                          syncing, outcome, active, outstanding>>
    /\ UNCHANGED <<pureVars, clientVars, schedVars, config, allocations, applianceRules, nextRuleId, intervalRef,
                   allocRead, fetchedAllocs, prevOutcome, cycles, skipped, ticks,
                   reads, failures>>

\* either read rejects: Promise.all rejects, `finally` clears the flag
ReadFailed ==
    /\ syncing /\ ~reconciled
    /\ allocRead = "pending" \/ rulesRead = "pending"
    /\ failures < MaxFailures
    /\ failures' = failures + 1
    /\ syncing' = FALSE
    /\ active' = active - 1
    /\ outcome' = "failed"
    /\ allocRead' = "idle"
    /\ rulesRead' = "idle"
    /\ UNCHANGED <<pureVars, clientVars, schedVars, config, outstanding, allocations, applianceRules, nextRuleId, intervalRef,
                   fetchedAllocs, fetchedRules, changeSet, reconciled, inflight,
                   callLog, warnLog, prevOutcome, cycles, skipped, ticks, reads>>

\* what the appliance holds after it served the call
ApplianceAfter(rules, call, newId) ==
    IF call.kind = "delete" THEN ApplianceDelete(rules, call.id)
    ELSE IF call.kind = "update"
      THEN ApplianceUpdate(rules, call.id,
                           updatePayload(config.site, call.rule, call.input))
    ELSE ApplianceCreate(rules, toPayload(config.site, call.input), newId)

\* the awaited udmClient call of applyChanges resolves; the loop goes on
MutationDone ==
    /\ syncing /\ reconciled
    /\ \E i \in inflight :
         LET calls == applyChanges(changeSet)
         IN  /\ applianceRules' = ApplianceAfter(applianceRules, calls[i], nextRuleId)
             /\ nextRuleId' = IF calls[i].kind = "create" THEN nextRuleId + 1
                              ELSE nextRuleId
             /\ IF i < Len(calls)
                  THEN /\ inflight' = {i + 1}
                       /\ callLog' = Append(callLog, calls[i + 1])
                       /\ UNCHANGED <<syncing, outcome, active, outstanding>>
                  ELSE /\ CycleCompleted
                       /\ UNCHANGED callLog
    /\ allocRead' = "idle"
    /\ rulesRead' = "idle"
    /\ UNCHANGED <<pureVars, clientVars, schedVars, config, allocations, intervalRef, fetchedAllocs, fetchedRules,
                   changeSet, reconciled, warnLog, prevOutcome, cycles, skipped,
                   ticks, reads, failures>>

\* variant: no `finally`, a rejected call leaves the flag set
MutationFailed_NoFinally ==
    /\ syncing /\ reconciled /\ inflight # {}
    /\ failures < MaxFailures
    /\ failures' = failures + 1
    /\ outstanding' =
         LET calls == applyChanges(changeSet)
             i == CHOOSE k \in inflight : TRUE
         IN  [state |-> "partial", calls |-> SubSeq(calls, i, Len(calls))]
    /\ inflight' = {}
    /\ outcome' = "failed"
    /\ UNCHANGED <<pureVars, clientVars, schedVars, config, allocations, applianceRules, nextRuleId,
                   intervalRef, allocRead, rulesRead, fetchedAllocs, fetchedRules,
                   changeSet, reconciled, callLog, warnLog, prevOutcome, cycles,
                   skipped, ticks, reads, syncing, active>>

\* the awaited call rejects: applyChanges throws, `finally` clears the flag
MutationFailed ==
    /\ syncing /\ reconciled /\ inflight # {}
    /\ failures < MaxFailures
    /\ failures' = failures + 1
    /\ outstanding' =
         LET calls == applyChanges(changeSet)
             i == CHOOSE k \in inflight : TRUE
         IN  [state |-> "partial", calls |-> SubSeq(calls, i, Len(calls))]
    /\ inflight' = {}
    /\ syncing' = FALSE
    /\ active' = active - 1
    /\ outcome' = "failed"
    /\ UNCHANGED <<pureVars, clientVars, schedVars, config, allocations, applianceRules, nextRuleId, intervalRef,
                   allocRead, rulesRead, fetchedAllocs, fetchedRules, changeSet,
                   reconciled, callLog, warnLog, prevOutcome, cycles, skipped,
                   ticks, reads>>

\* the interval timer fires between two cycles: the poll interval outlasts
\* the cycle
IdleTick ==
    /\ ~syncing
    /\ TimerTick

\* The service once started, its cycles one after the other, over every
\* initial rule list and allocation list.
NextCycles ==
    \/ FirstStart
    \/ IdleTick
    \/ AllocationsListed
    \/ PortForwardsListed
    \/ ReadFailed
    \/ MutationDone
    \/ MutationFailed

Spec == InitEngine /\ [][NextCycles]_vars

\* The scheduler in full: ticks that fire during a cycle, stop() and a later
\* start(), over the rule lists that make a cycle issue zero, one or two calls.
SchedulerRuleLists ==
    {rules \in RuleLists :
        \A i \in 1..Len(rules) :
           rules[i].name \in {<<"p", "-", "0", "1">>, <<"p", "-", "3">>}}

InitScheduler == InitService(Configs, AllocLists, SchedulerRuleLists) /\ InitClient /\ InitPure

NextEngine ==
    \/ Start
    \/ Stop
    \/ TimerTick
    \/ AllocationsListed
    \/ PortForwardsListed
    \/ ReadFailed
    \/ MutationDone
    \/ MutationFailed

SpecScheduler == InitScheduler /\ [][NextEngine]_vars

(* ------------------- UdmClient: the session protocol ------------------ *)
\* Steps are the event-loop turns of the client: a caller's call, the login
\* response, a request's response.  The awaits in between (resetSession,
\* storeCookies, getCookieString, the resolved loginPromise) settle in the
\* same turn, before any other response is delivered.

Statuses == {200, 401, 403, 500, NoStatus}

isAuthError(status) == status = 401 \/ status = 403

\* variant: a login is started whenever no token is held
StartsLogin_IgnoresInFlight(token, promise) == token = NoToken

\* ensureAuthenticated: `if (this.csrfToken) return; if (!this.loginPromise) ...`
StartsLogin(token, promise) == token = NoToken /\ promise = NoLogin

\* variant: every failed first attempt is retried
RetriesRequest_AnyError(attempt, status) == attempt = 0

\* variant: every 401/403 is retried
RetriesRequest_AnyAttempt(attempt, status) == isAuthError(status)

\* request: `if (attempt === 0 && this.isAuthError(error))`
RetriesRequest(attempt, status) == attempt = 0 /\ isAuthError(status)

\* http.request(prepared): the default header and the jar's cookies go along
Sent(r, header, cookies) ==
    [r EXCEPT !.pc = "inflight", !.sends = @ + 1, !.sentToken = header,
              !.sentCookies = cookies]

\* variant: the reset leaves the default header in place
resetSession_KeepsHeader ==
    /\ jar' = {}
    /\ csrfToken' = NoToken
    /\ UNCHANGED csrfHeader

\* resetSession: a new jar, no token, the default header deleted
resetSession ==
    /\ jar' = {}
    /\ csrfToken' = NoToken
    /\ csrfHeader' = NoToken

\* resetSession, then authenticate up to its POST
BeginLogin ==
    /\ resetSession
    /\ loginPromise' = loginCalls + 1
    /\ loginCalls' = loginCalls + 1

\* a caller invokes list/create/update/delete: request(config, 0)
Call(p) ==
    /\ req[p].pc = "idle"
    /\ IF csrfToken # NoToken
         THEN /\ req' = [req EXCEPT ![p] = Sent(@, csrfHeader, jar)]
              /\ UNCHANGED <<csrfToken, csrfHeader, jar, loginPromise, loginCalls>>
         ELSE IF StartsLogin(csrfToken, loginPromise)
           THEN /\ BeginLogin
                /\ req' = [req EXCEPT ![p].pc = "awaitLogin", ![p].waited = "started"]
           ELSE /\ req' = [req EXCEPT ![p].pc = "awaitLogin", ![p].waited = "joined"]
                /\ UNCHANGED <<csrfToken, csrfHeader, jar, loginPromise, loginCalls>>
    /\ UNCHANGED <<pureVars, engineVars, loginFailures, authErrors>>

\* the login response carries a token: authenticate stores it, every awaiter
\* clears loginPromise and sends its request
LoginSucceeded ==
    /\ loginPromise # NoLogin
    /\ csrfToken' = loginPromise
    /\ csrfHeader' = loginPromise
    /\ jar' = jar \cup {loginPromise}
    /\ loginPromise' = NoLogin
    /\ req' = [p \in Requests |->
                 IF req[p].pc = "awaitLogin"
                   THEN Sent(req[p], loginPromise, jar \cup {loginPromise})
                 ELSE req[p]]
    /\ UNCHANGED <<pureVars, engineVars, loginCalls, loginFailures, authErrors>>

\* variant: the awaiters of a failed login go on to send their requests
LoginFailed_AwaitersProceed ==
    /\ loginPromise # NoLogin
    /\ loginFailures < MaxLoginFailures
    /\ loginFailures' = loginFailures + 1
    /\ loginPromise' = NoLogin
    /\ req' = [p \in Requests |->
                 IF req[p].pc = "awaitLogin" THEN Sent(req[p], csrfHeader, jar)
                 ELSE req[p]]
    /\ UNCHANGED <<pureVars, engineVars, csrfToken, csrfHeader, jar, loginCalls, authErrors>>

\* variant: the awaiters of a failed login leave loginPromise set
LoginFailed_KeepsMarker ==
    /\ loginPromise # NoLogin
    /\ loginFailures < MaxLoginFailures
    /\ loginFailures' = loginFailures + 1
    /\ req' = [p \in Requests |->
                 IF req[p].pc = "awaitLogin" THEN [req[p] EXCEPT !.pc = "failed"]
                 ELSE req[p]]
    /\ UNCHANGED <<pureVars, engineVars, csrfToken, csrfHeader, jar, loginPromise,
                   loginCalls, authErrors>>

\* variant: a failed login is tried again on behalf of its awaiters
LoginFailed_Retried ==
    /\ loginPromise # NoLogin
    /\ loginFailures < MaxLoginFailures
    /\ loginFailures' = loginFailures + 1
    /\ loginPromise' = loginCalls + 1
    /\ loginCalls' = loginCalls + 1
    /\ UNCHANGED <<pureVars, engineVars, csrfToken, csrfHeader, jar, req, authErrors>>

\* the login call fails (HTTP error, or no token in the response): every
\* awaiter clears loginPromise and rejects
LoginFailed ==
    /\ loginPromise # NoLogin
    /\ loginFailures < MaxLoginFailures
    /\ loginFailures' = loginFailures + 1
    /\ loginPromise' = NoLogin
    /\ req' = [p \in Requests |->
                 IF req[p].pc = "awaitLogin" THEN [req[p] EXCEPT !.pc = "failed"]
                 ELSE req[p]]
    /\ UNCHANGED <<pureVars, engineVars, csrfToken, csrfHeader, jar, loginCalls, authErrors>>

\* the response of a sent request arrives
Response(p, status) ==
    /\ req[p].pc = "inflight"
    /\ isAuthError(status) => authErrors < MaxAuthErrors
    /\ authErrors' = IF isAuthError(status) THEN authErrors + 1 ELSE authErrors
    /\ IF status = 200
         THEN /\ req' = [req EXCEPT ![p].pc = "done", ![p].status = status]
              /\ UNCHANGED <<csrfToken, csrfHeader, jar, loginPromise, loginCalls>>
         ELSE IF RetriesRequest(req[p].attempt, status)
           \* invalidateAuth, then request(config, attempt + 1)
           THEN IF StartsLogin(NoToken, loginPromise)
                  THEN /\ BeginLogin
                       /\ req' = [req EXCEPT ![p].pc = "awaitLogin",
                                             ![p].attempt = @ + 1,
                                             ![p].authSeen = @ + 1,
                                             ![p].reStarted = @ + 1,
                                             ![p].status = status]
                  ELSE /\ resetSession
                       /\ req' = [req EXCEPT ![p].pc = "awaitLogin",
                                             ![p].attempt = @ + 1,
                                             ![p].authSeen = @ + 1,
                                             ![p].reJoined = @ + 1,
                                             ![p].status = status]
                       /\ UNCHANGED <<loginPromise, loginCalls>>
           \* the error is rethrown
           ELSE /\ req' = [req EXCEPT ![p].pc = "failed",
                                     ![p].status = status,
                                     ![p].authSeen =
                                         IF isAuthError(status) THEN @ + 1 ELSE @]
                /\ UNCHANGED <<csrfToken, csrfHeader, jar, loginPromise, loginCalls>>
    /\ UNCHANGED <<pureVars, engineVars, loginFailures>>

NextClient ==
    \/ \E p \in Requests : Call(p)
    \/ LoginSucceeded
    \/ LoginFailed
    \/ \E p \in Requests : \E status \in Statuses : Response(p, status)

InitClientOnly ==
    /\ InitService({c \in Configs : c.defaultTargetIp = Null}, {<<>>}, {<<>>})
    /\ InitClient
    /\ InitPure

SpecClient == InitClientOnly /\ [][NextClient]_vars

(* ----------------- UdmClient: authenticate, in detail ----------------- *)
\* A session is the token, the default X-CSRF-Token header and the jar, a
\* function from cookie keys to values.  Header values are tagged with
\* their JavaScript type; a Set-Cookie string is the cookie it parses to.
StringValue(value) == [type |-> "string", value |-> value]

\* resetSession
EmptySession == [csrfToken |-> Null, csrfHeader |-> Null, jar |-> <<>>]

RECURSIVE setCookies(_, _)
\* jar.setCookie for each cookie of the list
setCookies(cookieJar, cookieList) ==
    IF cookieList = <<>> THEN cookieJar
    ELSE setCookies(Spread(cookieJar, cookieList[1].key :> cookieList[1].value),
                    Tail(cookieList))

storeCookies(cookieJar, rawCookies) ==
    IF rawCookies.type = "undefined" THEN cookieJar
    ELSE IF rawCookies.type = "array" THEN setCookies(cookieJar, rawCookies.items)
    ELSE setCookies(cookieJar, <<rawCookies.value>>)

\* variant: the cookie is preferred to the header
extractCsrfToken_CookieFirst(headerToken, cookieJar) ==
    IF "csrf_token" \in DOMAIN cookieJar THEN cookieJar["csrf_token"]
    ELSE IF headerToken.type = "array" /\ Len(headerToken.items) > 0
      THEN headerToken.items[1]
    ELSE IF headerToken.type = "string" /\ headerToken.value # ""
      THEN headerToken.value
    ELSE Null

extractCsrfToken(headerToken, cookieJar) ==
    IF headerToken.type = "array" /\ Len(headerToken.items) > 0
      THEN headerToken.items[1]
    ELSE IF headerToken.type = "string" /\ headerToken.value # ""
      THEN headerToken.value
    ELSE IF "csrf_token" \in DOMAIN cookieJar THEN cookieJar["csrf_token"]
    ELSE Null

\* authenticate on the answer of POST /api/auth/login: the outcome and the
\* session it leaves
authenticate(session, response) ==
    IF response.type = "error"
      THEN [threw |-> TRUE, session |-> EmptySession]
    ELSE LET stored == storeCookies(EmptySession.jar, response.setCookie)
             token == extractCsrfToken(response.xCsrfToken, stored)
         IN  IF token \in {Null, ""}
               THEN [threw |-> TRUE, session |-> [EmptySession EXCEPT !.jar = stored]]
               ELSE [threw |-> FALSE,
                     session |-> [csrfToken |-> token, csrfHeader |-> token,
                                  jar |-> stored]]

(* ------------------- the pure functions, applied once ----------------- *)
RECURSIVE SeqsUpTo(_, _)
\* the sequences over chars of length at most n
SeqsUpTo(chars, n) ==
    IF n = 0 THEN {<<>>}
    ELSE SeqsUpTo(chars, n - 1)
           \cup {Append(q, c) : q \in SeqsUpTo(chars, n - 1), c \in chars}

\* config.udm.namePrefix: letters, a regular-expression metacharacter, a digit
Prefixes == SeqsUpTo({"p", ".", "1"}, MaxPrefixLen)

\* PortForwardRule.name
Names == SeqsUpTo({"p", ".", "1", "0", "x"}, MaxNameLen)

\* Allocation.id
Ids == 0..MaxId

\* PortForwardRequest values reconcileRules compares rules with
Targets ==
    {[name |-> <<"p", "-", "1">>, enabled |-> enabled, externalPort |-> 25,
      internalPort |-> 25, internalIp |-> "10.0.1.20", protocol |-> proto,
      source |-> "any", destination |-> "any", wanIp |-> wan]
       : enabled \in BOOLEAN, proto \in {"tcp", "tcp_udp"}, wan \in {"any", "wan"}}

\* PortForwardRule values: each compared field agreeing with the targets or not
Rules ==
    [id : {1}, name : {<<"p", "-", "1">>}, enabled : BOOLEAN,
     externalPort : {<<"2", "5">>, <<"0", "2", "5">>, <<"2", "6">>},
     internalPort : {<<"2", "5">>, <<"0", "2", "5">>, <<"2", "6">>},
     internalIp : {"10.0.1.20", "10.0.9.9"},
     protocol : {"tcp", "udp", "tcp_udp"},
     source : {"any", "lan"},
     destination : {"any", "192.0.2.1"},
     wanIp : {Null, "any", "wan"}]

ExternalIps == {"198.51.100.10", "203.0.113.20"}

\* config.udm.targetIpMap / defaultTargetIp: any part of the external IPs
\* mapped, a default set or not
TargetConfigs ==
    {[targetIpMap |-> m, defaultTargetIp |-> d]
       : m \in UNION {[S -> {"10.0.1.20", "10.0.1.30"}] : S \in SUBSET ExternalIps},
         d \in {Null, "10.0.1.10"}}

\* Allocation: ip and ipAlias (string | null)
TargetAllocations ==
    {[id |-> 1, ip |-> ip, ipAlias |-> alias, port |-> 25, notes |-> Null,
      isDefault |-> FALSE] : ip \in ExternalIps, alias \in ExternalIps \cup {Null}}

ApplyBuildRuleName ==
    /\ pureCall.fn = "none"
    /\ \E prefix \in Prefixes : \E id \in Ids :
          /\ pureCall' = [fn |-> "buildRuleName", prefix |-> prefix, id |-> id]
          /\ pureResult' = buildRuleName([namePrefix |-> prefix], id)
    /\ UNCHANGED <<engineVars, clientVars>>

ApplyParseAllocationId ==
    /\ pureCall.fn = "none"
    /\ \E prefix \in Prefixes : \E name \in Names :
          /\ pureCall' = [fn |-> "parseAllocationId", prefix |-> prefix, name |-> name]
          /\ pureResult' = parseAllocationId([namePrefix |-> prefix], name)
    /\ UNCHANGED <<engineVars, clientVars>>

ApplyIsRuleOutOfSync ==
    /\ pureCall.fn = "none"
    /\ \E rule \in Rules : \E target \in Targets :
          /\ pureCall' = [fn |-> "isRuleOutOfSync", rule |-> rule, target |-> target]
          /\ pureResult' = isRuleOutOfSync(rule, target)
    /\ UNCHANGED <<engineVars, clientVars>>

ApplyResolveTargetIp ==
    /\ pureCall.fn = "none"
    /\ \E cfg \in TargetConfigs : \E allocation \in TargetAllocations :
          /\ pureCall' = [fn |-> "resolveTargetIp", cfg |-> cfg,
                          allocation |-> allocation]
          /\ pureResult' = resolveTargetIp(cfg, allocation)
    /\ UNCHANGED <<engineVars, clientVars>>

\* rule.raw of the rule to update: empty, extra keys only, every payload key
\* stale together with an extra key and another identifier
StoredRaws ==
    {<<>>,
     [_id |-> "rule-1", note |-> "kept", log |-> FALSE],
     [_id |-> "rule-9", name |-> <<"o">>, enabled |-> FALSE, proto |-> "tcp",
      dst_port |-> <<"4", "0">>, fwd_port |-> <<"4", "0">>, fwd |-> "10.0.9.9",
      src |-> "lan", dst |-> "192.0.2.1", wanip |-> "wan2", site_id |-> "other",
      note |-> "kept"]}

\* PortForwardRule values handed to updatePortForward
StoredRules ==
    {[mapRawToRule(Spread(raw, [_id |-> "rule-1"])) EXCEPT !.raw = raw]
       : raw \in StoredRaws}

\* RawPortForward records of a response: two identified ones, one without
\* `_id`, one with an empty `_id`
Records ==
    {[_id |-> "rule-1", name |-> <<"p", "-", "1">>, enabled |-> FALSE,
      proto |-> "udp", dst_port |-> <<"2", "5">>, fwd_port |-> <<"2", "5">>,
      fwd |-> "10.0.1.20", src |-> "any", dst |-> "any", wanip |-> "wan"],
     [_id |-> "rule-2", name |-> <<"p", "-", "2">>],
     [name |-> <<"p", "-", "3">>],
     [_id |-> "", name |-> <<"p", "-", "4">>]}

RecordLists ==
    UNION {[1..n -> {JsonObject(r) : r \in Records}] : n \in 0..MaxRecords}

\* response.data: nothing, a string, an object with or without `data`, a
\* flat array, an envelope of an array or of one record, a bare record
ResponseBodies ==
    {Undefined, JsonString, JsonObject(<<>>), JsonObject([meta |-> "ok"]),
     JsonObject([data |-> JsonString])}
      \cup {JsonArray(l) : l \in RecordLists}
      \cup {JsonObject([data |-> JsonArray(l)]) : l \in RecordLists}
      \cup {JsonObject([data |-> JsonObject(r)]) : r \in Records}
      \cup {JsonObject(r) : r \in Records}

\* AllocationResponse of an allocation
Resource(a) ==
    [object |-> "allocation",
     attributes |-> [id |-> a.id, ip |-> a.ip, ip_alias |-> a.ipAlias,
                     port |-> a.port, notes |-> a.notes, is_default |-> a.isDefault]]

\* meta.pagination: absent, or current_page and total_pages as the panel
\* reports them
Paginations ==
    {<<>>} \cup {<<[current_page |-> c, total_pages |-> t]>>
                   : c \in 1..MaxPages, t \in 1..MaxPages}

\* one answer of the panel: a failed call, a payload whose data is not an
\* array, or a page of no or one allocation
PanelPages ==
    {FailedCall, Page(Undefined, <<>>), Page(JsonObject(<<>>), <<>>)}
      \cup {Page(JsonArray(items), pagination)
               : items \in {<<>>} \cup {<<Resource(Panel(id))>> : id \in AllocIds},
                 pagination \in Paginations}

Panels == UNION {[1..n -> PanelPages] : n \in 1..MaxPages}

ApplyListAllocations ==
    /\ pureCall.fn = "none"
    /\ \E panel \in Panels :
          /\ pureCall' = [fn |-> "listAllocations", panel |-> panel]
          /\ pureResult' = listAllocations(panel)
    /\ UNCHANGED <<engineVars, clientVars>>

\* the session before the login: none, or an earlier one
Sessions ==
    {EmptySession,
     [csrfToken |-> "old", csrfHeader |-> "old",
      jar |-> ("csrf_token" :> "old" @@ "TOKEN" :> "s0")]}

\* response.headers['x-csrf-token']
HeaderTokens ==
    {Undefined, StringValue(""), StringValue("h1"), JsonArray(<<>>),
     JsonArray(<<"h1", "h2">>)}

Cookies ==
    {[key |-> "TOKEN", value |-> "s1"], [key |-> "csrf_token", value |-> "c1"],
     [key |-> "csrf_token", value |-> ""]}

\* response.headers['set-cookie']
CookieHeaders ==
    {Undefined} \cup {StringValue(c) : c \in Cookies}
      \cup {JsonArray(l) : l \in UNION {[1..n -> Cookies] : n \in 0..MaxCookies}}

\* the answer to the login call: a failure, or a response with its headers
LoginResponses ==
    {FailedCall}
      \cup {[type |-> "response", xCsrfToken |-> h, setCookie |-> c]
               : h \in HeaderTokens, c \in CookieHeaders}

ApplyAuthenticate ==
    /\ pureCall.fn = "none"
    /\ \E session \in Sessions : \E response \in LoginResponses :
          /\ pureCall' = [fn |-> "authenticate", session |-> session,
                          response |-> response]
          /\ pureResult' = authenticate(session, response)
    /\ UNCHANGED <<engineVars, clientVars>>

\* RawPortForward.proto: missing, empty, the known tokens in three
\* capitalisations, and tokens the client does not know
WireProtos ==
    {Null, "", "tcp", "TCP", "Tcp", "udp", "UDP", "Udp", "both", "BOTH", "Both",
     "tcp_udp", "TCP_UDP", "Tcp_Udp", "tcp-udp", "TCP-UDP", "Tcp-Udp",
     "icmp", "ICMP", "Icmp", "tcpudp", "any"}

ApplyNormalizeProtocol ==
    /\ pureCall.fn = "none"
    /\ \E value \in WireProtos :
          /\ pureCall' = [fn |-> "normalizeProtocol", value |-> value]
          /\ pureResult' = normalizeProtocol(value)
    /\ UNCHANGED <<engineVars, clientVars>>

ApplyUpdatePortForward ==
    /\ pureCall.fn = "none"
    /\ \E rule \in StoredRules : \E request \in Targets :
          /\ pureCall' = [fn |-> "updatePortForwardRequest", site |-> "default",
                          rule |-> rule, request |-> request]
          /\ pureResult' = updatePortForwardRequest("default", rule, request)
    /\ UNCHANGED <<engineVars, clientVars>>

ApplySingleRuleResult ==
    /\ pureCall.fn = "none"
    /\ \E method \in {"createPortForward", "updatePortForward"} :
       \E body \in ResponseBodies :
          /\ pureCall' = [fn |-> method, body |-> body]
          /\ pureResult' = singleRuleResult(body)
    /\ UNCHANGED <<engineVars, clientVars>>

ApplyListPortForwards ==
    /\ pureCall.fn = "none"
    /\ \E body \in ResponseBodies :
          /\ pureCall' = [fn |-> "listPortForwards", body |-> body]
          /\ pureResult' = listPortForwardsResult(body)
    /\ UNCHANGED <<engineVars, clientVars>>

NextPure ==
    \/ ApplyBuildRuleName
    \/ ApplyParseAllocationId
    \/ ApplyIsRuleOutOfSync
    \/ ApplyResolveTargetIp
    \/ ApplyUpdatePortForward
    \/ ApplySingleRuleResult
    \/ ApplyListPortForwards
    \/ ApplyListAllocations
    \/ ApplyAuthenticate
    \/ ApplyNormalizeProtocol

InitPureOnly ==
    /\ InitService({c \in Configs : c.defaultTargetIp = Null}, {<<>>}, {<<>>})
    /\ InitClient
    /\ InitPure

SpecPure == InitPureOnly /\ [][NextPure]_vars

(* ======================= properties: the engine ====================== *)
\* "the configured prefix followed by one or more decimal digits", read off
\* the name itself
PrefixThenDigits(name) ==
    /\ Len(name) > Len(config.namePrefix)
    /\ SubSeq(name, 1, Len(config.namePrefix)) = config.namePrefix
    /\ \A i \in (Len(config.namePrefix) + 1)..Len(name) : name[i] \in DigitSet

\* the allocation id such a name carries
NameId(name) == ParseInt(SubSeq(name, Len(config.namePrefix) + 1, Len(name)))

FetchedRuleSet == {fetchedRules[i] : i \in 1..Len(fetchedRules)}

FetchedAllocSet == {fetchedAllocs[i] : i \in 1..Len(fetchedAllocs)}

FetchedAllocIds == {a.id : a \in FetchedAllocSet}

Calls == {callLog[i] : i \in 1..Len(callLog)}

DeleteSet == {changeSet.toDelete[i] : i \in 1..Len(changeSet.toDelete)}

UpdateSet == {changeSet.toUpdate[i] : i \in 1..Len(changeSet.toUpdate)}

CreateSet == {changeSet.toCreate[i] : i \in 1..Len(changeSet.toCreate)}

\* fetched rules whose name carries the id of the allocation
RulesOf(id) == {r \in FetchedRuleSet : PrefixThenDigits(r.name) /\ NameId(r.name) = id}

\* the allocation has no entry in the IP map (by IP or alias) and no default
Unresolvable(a) ==
    /\ a.ip \notin DOMAIN config.targetIpMap
    /\ a.ipAlias = Null \/ a.ipAlias \notin DOMAIN config.targetIpMap
    /\ config.defaultTargetIp = Null

\* C1: every deletePortForward and updatePortForward call of a cycle targets a
\* fetched rule named prefix + digits; a rule outside the prefix, or with the
\* prefix and a remainder that is not all digits, is never deleted or updated.
C1_OnlyAddressableRulesMutated ==
    /\ \A c \in Calls : c.kind \in {"delete", "update"} =>
          \E r \in FetchedRuleSet : r.id = c.id /\ PrefixThenDigits(r.name)
    /\ \A r \in FetchedRuleSet : ~PrefixThenDigits(r.name) =>
          /\ r \notin DeleteSet
          /\ \A u \in UpdateSet : u.rule # r
          /\ \A c \in Calls : c.kind \in {"delete", "update"} => c.id # r.id

\* a finished cycle that deleted or updated something while the list held a
\* prefixed name that does not parse and a name outside the prefix
C1_Witness ==
    /\ outcome = "ok"
    /\ \E c \in Calls : c.kind \in {"delete", "update"}
    /\ \E r \in FetchedRuleSet :
          StartsWith(r.name, config.namePrefix) /\ ~PrefixThenDigits(r.name)

\* C2 (as claimed): every addressable managed rule of the fetched list whose
\* allocation id matches no fetched allocation is in the delete set and in
\* neither the update nor the create set.
C2_EveryOrphanRuleDeleted ==
    reconciled =>
      \A r \in FetchedRuleSet :
        (PrefixThenDigits(r.name) /\ NameId(r.name) \notin FetchedAllocIds) =>
          /\ r \in DeleteSet
          /\ \A u \in UpdateSet : u.rule # r
          /\ \A c \in CreateSet : c.allocation.id # NameId(r.name)

\* C3: every fetched allocation with no managed addressable rule of its id and
\* a target IP that resolves is in the create set exactly once, and a cycle
\* that ran to its end called createPortForward exactly once for it.
C3_CreationSelection ==
    reconciled =>
      \A a \in FetchedAllocSet :
        (RulesOf(a.id) = {} /\ resolveTargetIp(config, a) # Null) =>
          /\ Cardinality({i \in 1..Len(changeSet.toCreate) :
                            changeSet.toCreate[i].allocation = a}) = 1
          /\ outcome = "ok" =>
               Cardinality({i \in 1..Len(callLog) :
                   /\ callLog[i].kind = "create"
                   /\ callLog[i].input.name = config.namePrefix \o NumberToString(a.id)}) = 1

\* a finished cycle created a rule for an allocation listed twice
C3_Witness ==
    /\ outcome = "ok"
    /\ \E i, j \in 1..Len(fetchedAllocs) :
          /\ i # j
          /\ fetchedAllocs[i] = fetchedAllocs[j]
          /\ RulesOf(fetchedAllocs[i].id) = {}
          /\ \E c \in Calls : c.kind = "create"
                              /\ c.input.externalPort = fetchedAllocs[i].port

\* C4 (as claimed): a managed addressable rule whose allocation id matches a
\* fetched allocation with a resolvable target is passed to updatePortForward,
\* with that allocation's desired request, iff the drift predicate flags it;
\* either way it is not deleted and nothing is created for the allocation.
C4_UpdateIffDrift ==
    reconciled =>
      \A r \in FetchedRuleSet : \A a \in FetchedAllocSet :
        (PrefixThenDigits(r.name) /\ NameId(r.name) = a.id
           /\ resolveTargetIp(config, a) # Null) =>
          /\ isRuleOutOfSync(r, buildPortForwardRequest(config, a)[1])
               <=> [rule |-> r, input |-> buildPortForwardRequest(config, a)[1]]
                     \in UpdateSet
          /\ r \notin DeleteSet
          /\ \A c \in CreateSet : c.allocation.id # a.id

\* C5: the mutations of a cycle are issued one at a time, each awaited before
\* the next starts, all deletes before any update, all updates before any create.
KindRank(kind) == IF kind = "delete" THEN 1 ELSE IF kind = "update" THEN 2 ELSE 3

C5_Ordering ==
    /\ Cardinality(inflight) <= 1
    /\ inflight \subseteq {Len(callLog)}
    /\ \A i, j \in 1..Len(callLog) :
          i < j => KindRank(callLog[i].kind) <= KindRank(callLog[j].kind)

\* a finished cycle that issued a delete, an update and a create
C5_Witness ==
    /\ outcome = "ok"
    /\ {c.kind : c \in Calls} = {"delete", "update", "create"}

\* C6 (as claimed): a cycle that follows a completed cycle, with the
\* allocations unchanged and the appliance holding what that cycle sent,
\* computes an empty change set, whatever the initial rule list.
C6_Idempotence ==
    (prevOutcome = "ok" /\ reconciled) => applyChanges(changeSet) = <<>>

\* C7: an allocation with no IP-map entry for its IP or alias, under a
\* configuration without default target, causes no create, update or delete;
\* a managed rule that exists for it stays on the appliance as it was.
C7_SkipOnUnresolvedTarget ==
    reconciled =>
      \A a \in FetchedAllocSet : Unresolvable(a) =>
        /\ \A c \in CreateSet : c.allocation.id # a.id
        /\ \A c \in Calls : c.kind = "create" =>
              c.input.name # config.namePrefix \o NumberToString(a.id)
        /\ \A r \in RulesOf(a.id) :
              /\ r \notin DeleteSet
              /\ \A u \in UpdateSet : u.rule # r
              /\ \A c \in Calls : c.kind \in {"delete", "update"} => c.id # r.id
              /\ \E i \in 1..Len(applianceRules) : applianceRules[i] = r.raw

\* a finished cycle that changed other rules while an unresolvable allocation
\* had a rule on the appliance
C7_Witness ==
    /\ outcome = "ok"
    /\ callLog # <<>>
    /\ \E a \in FetchedAllocSet : Unresolvable(a) /\ RulesOf(a.id) # {}

\* C10: at most one cycle is in progress; a tick that fires during a cycle
\* issues no read and no mutation, is counted as skipped, and starts nothing
\* later: every tick either starts its cycle at once or is dropped, and a
\* cycle starts only in the step of a tick.
C10_ConcurrencyGuard ==
    /\ [](active <= 1 /\ (syncing <=> active = 1))
    /\ [](cycles + skipped = ticks /\ reads = 2 * cycles)
    /\ [][(syncing /\ ticks' # ticks) =>
            /\ skipped' = skipped + 1
            /\ reads' = reads
            /\ cycles' = cycles
            /\ callLog' = callLog
            /\ inflight' = inflight
            /\ applianceRules' = applianceRules
            /\ <<allocRead, rulesRead, syncing>>' = <<allocRead, rulesRead, syncing>>]_vars
    /\ [][cycles' # cycles => (ticks' = ticks + 1 /\ ~syncing)]_vars

\* a tick was skipped during a cycle that then ran to its end
C10_Witness ==
    /\ skipped >= 1
    /\ outcome = "ok"
    /\ callLog # <<>>

\* C11: an error raised in a cycle (a failed read or a failed mutation,
\* whatever made the call fail) ends that cycle with the in-progress flag
\* cleared and the timer left installed, and the tick that follows a failed
\* cycle starts a full cycle (two reads) instead of being skipped.
C11_ErrorContainment ==
    /\ [](outcome = "failed" => (~syncing /\ active = 0))
    /\ [][failures' # failures =>
            (~syncing' /\ outcome' = "failed" /\ intervalRef' = intervalRef)]_vars
    /\ [][(outcome = "failed" /\ ticks' # ticks) =>
            /\ cycles' = cycles + 1
            /\ skipped' = skipped
            /\ reads' = reads + 2
            /\ syncing' /\ outcome' = "running"]_vars

\* with the timer installed, a cycle that followed a failed one ran to its end
\* and issued mutations
C11_Witness ==
    /\ intervalRef
    /\ prevOutcome = "failed"
    /\ outcome = "ok"
    /\ callLog # <<>>

\* C14 (as claimed): a failed mutation ends the cycle's mutations and leaves
\* the applied ones applied; the next cycle whose reads succeed plans exactly
\* the calls the failed cycle left outstanding (the failed one and those after
\* it); a cycle after the one that completed them plans nothing.
C14_PartialApplicationCorrected ==
    /\ [][(failures' # failures /\ inflight # {}) =>
            /\ callLog' = callLog
            /\ applianceRules' = applianceRules
            /\ inflight' = {}]_vars
    /\ [][(outstanding.state = "partial" /\ ~reconciled /\ reconciled') =>
            applyChanges(changeSet') = outstanding.calls]_vars
    /\ [][(outstanding.state = "recovered" /\ ~reconciled /\ reconciled') =>
            applyChanges(changeSet') = <<>>]_vars

\* C15: with the timer cleared only start() begins a cycle; the step that
\* clears the timer changes nothing of a cycle in flight; such a cycle still
\* ends, completed or failed, with the in-progress flag cleared.
C15_StopClearsTimer ==
    /\ [][(~intervalRef /\ ticks' # ticks) => intervalRef']_vars
    /\ [][(intervalRef /\ ~intervalRef') =>
            UNCHANGED <<syncing, active, allocRead, rulesRead, fetchedAllocs,
                        fetchedRules, changeSet, reconciled, inflight, callLog,
                        outcome, cycles, skipped, ticks, reads, applianceRules>>]_vars
    /\ [][(~intervalRef /\ ~intervalRef' /\ syncing /\ ~syncing') =>
            (outcome' \in {"ok", "failed"} /\ active' = 0 /\ inflight' = {})]_vars

\* the timer is cleared while a cycle has a mutation in flight
C15_Witness ==
    /\ ~intervalRef
    /\ syncing
    /\ inflight # {}
    /\ Len(callLog) >= 2

\* C35: start() on a stopped service triggers one runSyncCycle at once and
\* installs one interval timer; a start() on a started service installs no
\* timer and triggers no cycle, however many times it is called; at most one
\* timer is ever installed, and it is installed exactly while intervalRef is set.
C35_StartIdempotent ==
    /\ [](timers <= 1 /\ (intervalRef <=> timers = 1))
    /\ [][(starts' # starts /\ intervalRef) =>
            UNCHANGED <<timers, intervalRef, ticks, cycles, skipped, reads,
                        syncing, active, outcome, callLog>>]_vars
    /\ [][(starts' # starts /\ ~intervalRef) =>
            /\ timers' = timers + 1
            /\ intervalRef'
            /\ ticks' = ticks + 1
            /\ cycles' + skipped' = cycles + skipped + 1]_vars

\* start() called twice on a service never stopped: one timer, one cycle
C35_Witness ==
    /\ starts = MaxStarts
    /\ starts >= 2
    /\ timers = 1
    /\ intervalRef
    /\ ticks = 1
    /\ cycles = 1

\* The request buildPortForwardRequest is to produce for an allocation, read
\* off the claim: name, enabled, ports, target and the configured policy.
DesiredRequest(a) ==
    [name |-> config.namePrefix \o NumberToString(a.id),
     enabled |-> TRUE,
     externalPort |-> a.port,
     internalPort |-> a.port,
     internalIp |-> IF a.ip \in DOMAIN config.targetIpMap
                      THEN config.targetIpMap[a.ip]
                    ELSE IF a.ipAlias \in DOMAIN config.targetIpMap
                      THEN config.targetIpMap[a.ipAlias]
                    ELSE config.defaultTargetIp,
     protocol |-> config.protocol,
     source |-> config.source,
     destination |-> config.destination,
     wanIp |-> config.wanIp]

ExampleConfig ==
    [namePrefix |-> <<"p", "t", "e", "r", "o", "-", "a", "l", "l", "o", "c", "-">>,
     site |-> "default", protocol |-> "tcp_udp", source |-> "any",
     destination |-> "any", wanIp |-> "any", targetIpMap |-> <<>>,
     defaultTargetIp |-> "10.0.1.10"]

ExampleAllocation ==
    [id |-> 101, ip |-> "198.51.100.10", ipAlias |-> Null, port |-> 25565,
     notes |-> Null, isDefault |-> FALSE]

\* allocation {id 101, port 25565}, no rules, default target 10.0.1.10
C19_Example ==
    applyChanges(reconcileRules(ExampleConfig, <<ExampleAllocation>>, <<>>))
      = <<[kind |-> "create",
           input |-> [name |-> <<"p", "t", "e", "r", "o", "-", "a", "l", "l", "o", "c",
                                 "-", "1", "0", "1">>,
                      enabled |-> TRUE, externalPort |-> 25565,
                      internalPort |-> 25565, internalIp |-> "10.0.1.10",
                      protocol |-> "tcp_udp", source |-> "any",
                      destination |-> "any", wanIp |-> "any"]]>>

\* C19: the input of every createPortForward and updatePortForward call is
\* the desired request of a fetched allocation: name = prefix + id, enabled,
\* both ports the allocation's port, the resolved target, the configured
\* protocol, source, destination and WAN IP; an update goes to a rule that
\* carries that allocation's id.
C19_DesiredRequestFields ==
    /\ C19_Example
    /\ \A c \in Calls : c.kind \in {"create", "update"} =>
          \E a \in FetchedAllocSet :
             /\ c.input = DesiredRequest(a)
             /\ c.input.internalIp # Null
             /\ c.kind = "update" => c.rule \in RulesOf(a.id)

\* a finished cycle that issued an update and a create
C19_Witness ==
    /\ outcome = "ok"
    /\ \E c \in Calls : c.kind = "update"
    /\ \E c \in Calls : c.kind = "create"

\* the body the client sends for the call
WirePayload(c) ==
    IF c.kind = "update" THEN updatePayload(config.site, c.rule, c.input)
    ELSE toPayload(config.site, c.input)

\* C20 (as claimed): the proto field of every create and update payload is
\* tcp for tcp, udp for udp and the appliance's token both for tcp_udp.
C20_DualProtocolToken ==
    \A c \in Calls : c.kind \in {"create", "update"} =>
       WirePayload(c).proto =
          (IF c.input.protocol = "tcp_udp" THEN "both" ELSE c.input.protocol)

\* C31: a cycle issues no create, update or delete unless both of its reads
\* have completed successfully; a cycle whose read fails issues none and
\* leaves the appliance as it was; the change set is the reconciliation of
\* what the panel and the appliance hold, whichever read completes first.
C31_MutationsOnlyAfterBothReads ==
    /\ [][(callLog = <<>> /\ callLog' # <<>>) =>
            /\ allocRead' = "ok" /\ rulesRead' = "ok"
            /\ reconciled']_vars
    /\ [][applianceRules' # applianceRules => (reconciled /\ callLog # <<>>)]_vars
    /\ []((outcome = "failed" /\ ~reconciled) =>
            callLog = <<>> /\ changeSet = EmptyChangeSet)
    /\ [][(~reconciled /\ reconciled') =>
            changeSet' = reconcileRules(config, allocations,
                            [i \in 1..Len(applianceRules) |->
                                mapRawToRule(applianceRules[i])])]_vars

\* a cycle whose read failed changed nothing, and the next cycle, with both
\* reads done, issued a mutation
C31_Witness ==
    /\ prevOutcome = "failed" /\ outstanding.state = "none"
    /\ failures = 1
    /\ reconciled /\ callLog # <<>>

\* the "missing target IP mapping" warnings of the cycle for one allocation
ResolutionWarningsFor(id) ==
    SelectSeq(warnLog, LAMBDA w : w.kind \in {"skipUpdate", "skipCreate"} /\ w.id = id)

\* C25 as stated: in one cycle an allocation whose target IP cannot be
\* resolved produces exactly one logged warning, whether or not a managed
\* rule exists for it.
C25_OneWarningPerUnresolved ==
    reconciled =>
      \A a \in FetchedAllocSet :
         Unresolvable(a) => Len(ResolutionWarningsFor(a.id)) = 1

\* C25, amended: such an allocation produces one warning ("skipping
\* creation") when no managed rule exists for it, and two ("skipping
\* update", then "skipping creation") when one does.
C25_WarningsPerUnresolved ==
    reconciled =>
      \A a \in FetchedAllocSet :
         Unresolvable(a) =>
           ResolutionWarningsFor(a.id) =
             IF RulesOf(a.id) = {}
               THEN <<[kind |-> "skipCreate", id |-> a.id]>>
               ELSE <<[kind |-> "skipUpdate", id |-> a.id],
                      [kind |-> "skipCreate", id |-> a.id]>>

\* a cycle met an unresolvable allocation that has a managed rule, and
\* warned twice
C25_Witness ==
    /\ reconciled
    /\ \E a \in FetchedAllocSet :
          /\ Unresolvable(a) /\ RulesOf(a.id) # {}
          /\ Len(ResolutionWarningsFor(a.id)) = 2

\* the allocation ids the three lists of the change set are about
DeleteIds ==
    [i \in 1..Len(changeSet.toDelete) |->
        parseAllocationId(config, changeSet.toDelete[i].name).value]

UpdateIds ==
    [i \in 1..Len(changeSet.toUpdate) |->
        parseAllocationId(config, changeSet.toUpdate[i].rule.name).value]

CreateIds ==
    [i \in 1..Len(changeSet.toCreate) |-> changeSet.toCreate[i].allocation.id]

\* the rule records the deletes and the updates are aimed at
MutatedRuleIds ==
    [i \in 1..Len(changeSet.toDelete) |-> changeSet.toDelete[i].id]
      \o [i \in 1..Len(changeSet.toUpdate) |-> changeSet.toUpdate[i].rule.id]

NoRepeats(s) == \A i, j \in 1..Len(s) : i # j => s[i] # s[j]

\* C38: in the change set of a cycle no allocation id occurs twice over the
\* delete, update and create lists taken together, and no rule record is
\* aimed at twice by the deletes and updates; deletes are of ids the panel
\* does not list, updates and creates of ids it lists, whatever ids the
\* allocation list repeats.
C38_ChangeSetDisjoint ==
    /\ NoRepeats(DeleteIds \o UpdateIds \o CreateIds)
    /\ NoRepeats(MutatedRuleIds)
    /\ reconciled =>
          LET listed == {allocations[i].id : i \in 1..Len(allocations)}
          IN  /\ \A i \in 1..Len(DeleteIds) : DeleteIds[i] \notin listed
              /\ \A i \in 1..Len(UpdateIds) : UpdateIds[i] \in listed
              /\ \A i \in 1..Len(CreateIds) : CreateIds[i] \in listed

\* the panel lists one id twice: one create for it, next to a delete
C38_Witness ==
    /\ reconciled
    /\ Len(allocations) = 2
    /\ allocations[1].id = allocations[2].id
    /\ Len(changeSet.toCreate) = 1
    /\ Len(changeSet.toDelete) = 1

\* fetched rule i is managed and a later fetched rule carries the same id
Shadowed(i) ==
    /\ PrefixThenDigits(fetchedRules[i].name)
    /\ \E j \in (i + 1)..Len(fetchedRules) :
          /\ PrefixThenDigits(fetchedRules[j].name)
          /\ NameId(fetchedRules[j].name) = NameId(fetchedRules[i].name)

\* C39: of the fetched managed rules that carry one allocation id (the same
\* name, or names that differ in leading zeros) the cycle considers the last
\* in list order only: it is deleted when the panel does not list the id and
\* updated when the allocation resolves and the rule drifted; every earlier
\* one is in neither list and no delete or update call is made for it.
C39_LastRuleOfAnIdWins ==
    reconciled =>
      \A i \in 1..Len(fetchedRules) :
         LET rule == fetchedRules[i]
         IN  IF Shadowed(i)
               THEN /\ rule \notin DeleteSet
                    /\ \A u \in UpdateSet : u.rule # rule
                    /\ \A c \in Calls :
                          c.kind \in {"delete", "update"} => c.id # rule.id
             ELSE PrefixThenDigits(rule.name) =>
                    /\ NameId(rule.name) \notin FetchedAllocIds => rule \in DeleteSet
                    /\ \A a \in FetchedAllocSet :
                          (/\ a.id = NameId(rule.name)
                           /\ buildPortForwardRequest(config, a) # <<>>
                           /\ isRuleOutOfSync(rule, buildPortForwardRequest(config, a)[1])) =>
                             \E u \in UpdateSet : u.rule = rule

\* two rules whose names differ in a leading zero: the later one is updated
C39_Witness ==
    /\ reconciled
    /\ \E i, j \in 1..Len(fetchedRules) :
          /\ i < j
          /\ Shadowed(i)
          /\ NameId(fetchedRules[j].name) = NameId(fetchedRules[i].name)
          /\ fetchedRules[j].name # fetchedRules[i].name
          /\ \E u \in UpdateSet : u.rule = fetchedRules[j]
          /\ \E c \in Calls : c.kind = "update" /\ c.id = fetchedRules[j].id

(* ======================= properties: the client ====================== *)
\* C8: requests issued while the client is unauthenticated and no login is
\* in flight trigger exactly one login call, and all of them are sent, with
\* its token, once it has succeeded (as long as no session expires and the
\* login does not fail, nothing else starts a login).
C8_SingleFlightAuth ==
    (authErrors = 0 /\ loginFailures = 0) =>
      /\ loginCalls <= 1
      /\ \A p \in Requests :
            /\ req[p].pc \in {"inflight", "done", "failed"} =>
                 /\ loginCalls = 1
                 /\ req[p].sends = 1
                 /\ req[p].sentToken = loginCalls
            /\ req[p].pc = "awaitLogin" => loginPromise # NoLogin

\* two requests were issued before the login completed, one started it, the
\* other awaited it, and both were sent after it
C8_Witness ==
    /\ authErrors = 0 /\ loginFailures = 0 /\ loginCalls = 1
    /\ \E p, q \in Requests :
          /\ req[p].waited = "started" /\ req[q].waited = "joined"
          /\ req[p].pc \in {"inflight", "done"}
          /\ req[q].pc \in {"inflight", "done"}

\* the step delivers a response (or a failure without response) to request p
Answered(p) == req[p].pc = "inflight" /\ req'[p].pc # "inflight"

\* C12: a request whose send fails with anything but 401/403 (another HTTP
\* status, or no response at all) fails in that very step: nothing is sent
\* again, no login is started, and the token and its header stay as they
\* were; a request that fails so on its first attempt was sent exactly once.
C12_NonAuthErrorPropagates ==
    /\ [][\A p \in Requests :
            (Answered(p) /\ req'[p].status \notin {200, 401, 403}) =>
               /\ req'[p].pc = "failed"
               /\ \A q \in Requests : req'[q].sends = req[q].sends
               /\ req[p].attempt = 0 => req'[p].sends = 1
               /\ UNCHANGED <<csrfToken, csrfHeader, loginPromise, loginCalls>>]_vars
    /\ [](\A p \in Requests :
            (req[p].pc = "failed" /\ req[p].sends >= 1
               /\ req[p].status \notin {401, 403}) =>
              req[p].sends = req[p].attempt + 1)

\* a first attempt failed without response while a token was held: one send,
\* the token still held
C12_Witness ==
    \E p \in Requests :
       /\ req[p].pc = "failed"
       /\ req[p].status = NoStatus
       /\ req[p].attempt = 0
       /\ req[p].sends = 1
       /\ csrfToken # NoToken

\* C13 (as claimed): every step in which a request ends in 401/403, on the
\* first attempt or on the retry, leaves the client without token, without
\* CSRF header and with an empty cookie jar.
C13_SessionClearedOnAuthFailure ==
    [][\A p \in Requests :
         (Answered(p) /\ req'[p].status \in {401, 403}) =>
            (csrfToken' = NoToken /\ csrfHeader' = NoToken /\ jar' = {})]_vars

\* C9: a request whose first attempt fails with 401/403 goes through exactly
\* one re-login and, once that succeeded, is sent exactly once more; when the
\* retry fails with 401/403 too the request fails, and that step starts no
\* login and sends nothing: never a third send.
C9_ReauthOnce ==
    /\ [](\A p \in Requests :
            /\ req[p].sends <= 2
            /\ req[p].authSeen <= 2
            /\ req[p].authSeen >= 1 =>
                 /\ req[p].attempt = 1
                 /\ req[p].reStarted + req[p].reJoined = 1
            /\ (req[p].authSeen >= 1 /\ req[p].pc \in {"inflight", "done"}) =>
                 req[p].sends = 2
            /\ req[p].authSeen = 2 => (req[p].pc = "failed" /\ req[p].sends = 2))
    /\ [][\A p \in Requests :
            (req[p].authSeen = 1 /\ req'[p].authSeen = 2) =>
               /\ req'[p].pc = "failed"
               /\ loginCalls' = loginCalls
               /\ loginPromise' = loginPromise
               /\ \A q \in Requests : req'[q].sends = req[q].sends]_vars

\* a request got 401/403 on both attempts: one re-login started by it, two
\* sends, and the error reached the caller
C9_Witness ==
    \E p \in Requests :
       /\ req[p].authSeen = 2
       /\ req[p].pc = "failed"
       /\ req[p].sends = 2
       /\ req[p].reStarted = 1

\* the step sends request p (first attempt or retry)
Sends(p) == req'[p].sends = req[p].sends + 1

\* C27: in every interleaving of requests, 401/403 responses, invalidations
\* and login completions, at most one login call is in flight: the login in
\* flight is the latest one started, and a login is started only when none
\* is in flight.
C27_SingleLoginInFlight ==
    /\ [](loginPromise \in {NoLogin, loginCalls})
    /\ [][loginCalls' # loginCalls =>
            /\ loginPromise = NoLogin
            /\ loginCalls' = loginCalls + 1
            /\ loginPromise' = loginCalls']_vars

\* a second login is in flight after two sent requests were both answered
\* 401/403: one of them started it, the other joined it
C27_Witness ==
    /\ loginCalls = 2 /\ loginPromise = 2
    /\ \E p, q \in Requests :
          /\ req[p].pc = "awaitLogin" /\ req[p].reStarted = 1
          /\ req[q].pc = "awaitLogin" /\ req[q].reJoined = 1

\* C28: every call to the rule endpoint, retries included, is sent while the
\* client is authenticated: in the step that sends it a token is held, the
\* X-CSRF-Token header is that token, and the cookies attached are those of
\* the jar of that session.
C28_SentOnlyAuthenticated ==
    [][\A p \in Requests : Sends(p) =>
          /\ csrfToken' # NoToken
          /\ csrfHeader' = csrfToken'
          /\ req'[p].sentToken = csrfToken'
          /\ req'[p].sentCookies = jar'
          /\ csrfToken' \in jar']_vars

\* a request was sent again, after its first attempt met a 401/403 and
\* another request's invalidation, with the token of the second login
C28_Witness ==
    \E p \in Requests :
       /\ req[p].sends = 2
       /\ req[p].reJoined = 1
       /\ req[p].sentToken = 2
       /\ req[p].sentCookies = {2}

\* C29: the completion of a login, successful or not, clears the in-flight
\* marker and leaves no caller awaiting; a failed login leaves the client
\* without a token, every caller that awaited it fails without having sent,
\* and the next request starts a new login.
C29_LoginCompletion ==
    /\ [](loginPromise = NoLogin => \A p \in Requests : req[p].pc # "awaitLogin")
    /\ [][(csrfToken = NoToken /\ csrfToken' # NoToken) =>
            /\ loginPromise # NoLogin
            /\ loginPromise' = NoLogin]_vars
    /\ [][loginFailures' # loginFailures =>
            /\ loginPromise # NoLogin
            /\ loginPromise' = NoLogin
            /\ csrfToken' = NoToken
            /\ csrfHeader' = NoToken
            /\ \A p \in Requests : req[p].pc = "awaitLogin" =>
                  /\ req'[p].pc = "failed"
                  /\ req'[p].sends = req[p].sends]_vars
    /\ [][\A p \in Requests :
            (/\ req[p].pc = "idle" /\ req'[p].pc # "idle"
             /\ loginFailures > 0
             /\ csrfToken = NoToken /\ loginPromise = NoLogin) =>
               /\ loginCalls' = loginCalls + 1
               /\ loginPromise' = loginCalls'
               /\ req'[p].waited = "started"]_vars

\* a login failed, its awaiter failed without sending, and the next request
\* started a second login
C29_Witness ==
    /\ loginFailures = 1 /\ authErrors = 0
    /\ loginCalls = 2 /\ loginPromise = 2
    /\ \E p, q \in Requests :
          /\ req[p].pc = "failed" /\ req[p].sends = 0
          /\ req[q].pc = "awaitLogin" /\ req[q].waited = "started"

\* C36 (as claimed): when the 401/403 of a request's first attempt arrives
\* after a re-login has established a newer session than the one the request
\* was sent on, the newer session is kept: token, header and cookies stay, no
\* further login call is made, and the request goes on to its one retry.
C36_StaleAuthErrorKeepsSession ==
    [][\A p \in Requests :
         (/\ req[p].pc = "inflight"
          /\ req[p].attempt = 0
          /\ req'[p].authSeen = req[p].authSeen + 1
          /\ csrfToken # NoToken
          /\ req[p].sentToken # csrfToken) =>
            /\ UNCHANGED <<csrfToken, csrfHeader, jar, loginCalls, loginPromise>>
            /\ req'[p].attempt = 1]_vars

\* login calls that request p started itself: in its first
\* ensureAuthenticated and in the one after invalidateAuth
LoginsStartedBy(p) ==
    (IF req[p].waited = "started" THEN 1 ELSE 0) + req[p].reStarted

RECURSIVE LoginsStartedByAll(_)
LoginsStartedByAll(n) ==
    IF n = 0 THEN 0 ELSE LoginsStartedBy(n) + LoginsStartedByAll(n - 1)

\* C37: a logical request starts at most two login calls and is sent at most
\* twice, and every login call made is one started by a request; a login call
\* that fails starts no other login and sends nothing, each of its awaiters
\* fails, and a failed request takes no further step.
C37_BoundedLoginsAndSends ==
    /\ [](/\ \A p \in Requests : req[p].sends <= 2 /\ LoginsStartedBy(p) <= 2
          /\ loginCalls = LoginsStartedByAll(MaxRequests))
    /\ [][loginFailures' # loginFailures =>
            /\ loginCalls' = loginCalls
            /\ loginPromise' = NoLogin
            /\ \A p \in Requests :
                  IF req[p].pc = "awaitLogin"
                    THEN req'[p] = [req[p] EXCEPT !.pc = "failed"]
                  ELSE req'[p] = req[p]]_vars
    /\ [][\A p \in Requests : req[p].pc = "failed" => req'[p] = req[p]]_vars

\* a request started the first login and the re-login after its 401 and was
\* sent twice; another failed with the login it had started
C37_Witness ==
    \E p, q \in Requests :
       /\ LoginsStartedBy(p) = 2
       /\ req[p].sends = 2
       /\ req[q].pc = "failed"
       /\ req[q].sends = 0
       /\ req[q].waited = "started"
       /\ loginFailures = 1

\* C40: in every state between client steps the default X-CSRF-Token header
\* is absent exactly when no token is held and otherwise equals the held
\* token; a login that succeeds leaves both set to its token, and a step that
\* drops the token drops the header and the cookies with it.
C40_TokenAndHeaderAgree ==
    /\ []((csrfHeader = NoToken <=> csrfToken = NoToken) /\ csrfHeader = csrfToken)
    /\ [][(loginPromise # NoLogin /\ loginPromise' = NoLogin
             /\ loginFailures' = loginFailures) =>
            (csrfToken' = loginPromise /\ csrfHeader' = loginPromise
             /\ csrfToken' # NoToken)]_vars
    /\ [][(csrfToken # NoToken /\ csrfToken' = NoToken) =>
            (csrfHeader' = NoToken /\ jar' = {})]_vars

\* a second login succeeded after the session of the first was reset
C40_Witness ==
    /\ authErrors >= 1
    /\ loginCalls = 2
    /\ loginPromise = NoLogin
    /\ csrfToken = 2
    /\ csrfHeader = 2

(* =================== properties: the pure functions =================== *)
\* the name is the prefix followed by one or more decimal digits
IsPrefixThenDigits(prefix, name) ==
    /\ Len(name) > Len(prefix)
    /\ \A i \in 1..Len(prefix) : name[i] = prefix[i]
    /\ \A i \in (Len(prefix) + 1)..Len(name) : name[i] \in DigitSet

\* C16: parsing the name built for an id under a prefix gives the id back,
\* whatever the prefix (metacharacters, trailing digits, empty); a name that
\* is not the prefix followed by one or more decimal digits parses to null.
C16_NameRoundTrip ==
    /\ pureCall.fn = "buildRuleName" =>
          parseAllocationId([namePrefix |-> pureCall.prefix], pureResult)
            = [isNull |-> FALSE, value |-> pureCall.id]
    /\ pureCall.fn = "parseAllocationId" =>
          (~IsPrefixThenDigits(pureCall.prefix, pureCall.name) => pureResult.isNull)

\* a name that matches the prefix only when its "." is read as a wildcard
\* was parsed, and reported unparseable
C16_Witness ==
    /\ pureCall.fn = "parseAllocationId"
    /\ pureCall.prefix = <<"p", ".">>
    /\ pureCall.name = <<"p", "x", "1">>
    /\ pureResult.isNull

DriftFields ==
    {"internalIp", "internalPort", "externalPort", "protocol", "source",
     "destination", "wanIp"}

\* the rule's value of the field differs from the desired request's
FieldDiffers(rule, target, f) ==
    IF f \in {"internalPort", "externalPort"} THEN rule[f] # NumberToString(target[f])
    ELSE IF f = "wanIp"
      THEN (IF rule.wanIp = Null THEN "any" ELSE rule.wanIp) # target.wanIp
    ELSE rule[f] # target[f]

\* C17: a rule that differs from the desired request in exactly one of the
\* seven fields, all else equal, is flagged; a rule equal in all fields is
\* not; an absent wanIp counts as "any".
C17_DriftCompleteness ==
    pureCall.fn = "isRuleOutOfSync" =>
      LET rule == pureCall.rule
          target == pureCall.target
          differing == {f \in DriftFields : FieldDiffers(rule, target, f)}
      IN  /\ (Cardinality(differing) = 1 /\ rule.enabled = target.enabled)
                => pureResult = TRUE
          /\ (differing = {} /\ rule.enabled = target.enabled)
                => pureResult = FALSE

\* a rule without wanIp, equal to the request in every other field, compared
\* with a request bound to a WAN address: flagged
C17_Witness ==
    /\ pureCall.fn = "isRuleOutOfSync"
    /\ pureCall.rule.wanIp = Null
    /\ pureCall.target.wanIp = "wan"
    /\ {f \in DriftFields : FieldDiffers(pureCall.rule, pureCall.target, f)} = {"wanIp"}
    /\ pureCall.rule.enabled
    /\ pureResult = TRUE

\* C18: the IP-map entry of the allocation's IP if there is one, else that of
\* its alias if the alias is set and mapped, else the default target, else
\* null; never the default when the IP or the alias is mapped.
C18_TargetPrecedence ==
    pureCall.fn = "resolveTargetIp" =>
      LET map == pureCall.cfg.targetIpMap
          default == pureCall.cfg.defaultTargetIp
          ip == pureCall.allocation.ip
          alias == pureCall.allocation.ipAlias
          ipMapped == ip \in DOMAIN map
          aliasMapped == alias # Null /\ alias \in DOMAIN map
      IN  /\ ipMapped => pureResult = map[ip]
          /\ (~ipMapped /\ aliasMapped) => pureResult = map[alias]
          /\ (~ipMapped /\ ~aliasMapped) => pureResult = default
          /\ (ipMapped \/ aliasMapped) => pureResult # "10.0.1.10"

\* IP and alias are mapped to different targets and a default is set: the
\* IP's entry is returned
C18_Witness ==
    /\ pureCall.fn = "resolveTargetIp"
    /\ pureCall.allocation.ipAlias # Null
    /\ pureCall.allocation.ip \in DOMAIN pureCall.cfg.targetIpMap
    /\ pureCall.allocation.ipAlias \in DOMAIN pureCall.cfg.targetIpMap
    /\ pureCall.cfg.targetIpMap[pureCall.allocation.ip]
          # pureCall.cfg.targetIpMap[pureCall.allocation.ipAlias]
    /\ pureCall.cfg.defaultTargetIp # Null
    /\ pureResult = pureCall.cfg.targetIpMap[pureCall.allocation.ip]

(* ================ properties: the client's wire mapping =============== *)
PayloadKeys ==
    {"name", "enabled", "proto", "dst_port", "fwd_port", "fwd", "src", "dst",
     "wanip", "site_id"}

\* C21: the body of an update is the rule's stored raw record overlaid with
\* the desired payload: every payload key carries the desired value, `_id`
\* is the rule's own identifier, every other stored key is kept as it was;
\* the call is a PUT to the endpoint of that rule identifier.
C21_UpdatePayloadMerge ==
    pureCall.fn = "updatePortForwardRequest" =>
      LET rule == pureCall.rule
          request == pureCall.request
          data == pureResult.data
      IN  /\ pureResult.method = "PUT"
          /\ pureResult.url = [siteEndpoint |-> pureCall.site, id |-> rule.id]
          /\ DOMAIN data = DOMAIN rule.raw \cup PayloadKeys \cup {"_id"}
          /\ data._id = rule.id
          /\ data.name = request.name
          /\ data.enabled = request.enabled
          /\ data.proto = serializeProtocol(request.protocol)
          /\ data.dst_port = NumberToString(request.externalPort)
          /\ data.fwd_port = NumberToString(request.internalPort)
          /\ data.fwd = request.internalIp
          /\ data.src = request.source
          /\ data.dst = request.destination
          /\ data.wanip = request.wanIp
          /\ data.site_id = pureCall.site
          /\ \A k \in DOMAIN rule.raw \ (PayloadKeys \cup {"_id"}) :
                data[k] = rule.raw[k]

\* a rule whose stored record has stale payload keys, another identifier
\* and an extra key was updated
C21_Witness ==
    /\ pureCall.fn = "updatePortForwardRequest"
    /\ "note" \in DOMAIN pureCall.rule.raw
    /\ "fwd" \in DOMAIN pureCall.rule.raw
    /\ pureCall.rule.raw.fwd # pureCall.request.internalIp
    /\ pureCall.rule.raw._id # pureCall.rule.id
    /\ pureResult.data.note = "kept"
    /\ pureResult.data.fwd = pureCall.request.internalIp

\* the identified records of the responses
Identified == {r \in Records : ~missingIdentifier(r)}

SingleRuleCall == pureCall.fn \in {"createPortForward", "updatePortForward"}

\* C22 as stated: createPortForward returns the created rule both when the
\* record is wrapped in a `data` envelope and when the body is the bare
\* record.
C22_CreateWrappedOrBare ==
    pureCall.fn = "createPortForward" =>
      \A r \in Identified :
         pureCall.body \in {JsonObject([data |-> JsonObject(r)]),
                            JsonObject([data |-> JsonArray(<<JsonObject(r)>>)]),
                            JsonObject(r)}
           => pureResult = Return(mapRawToRule(r))

\* C22, amended: createPortForward returns the created rule when `data`
\* holds the record itself or a collection of it; a body that is the bare
\* record, without `data`, fails with "response missing data".
C22_CreateWrappedOnly ==
    pureCall.fn = "createPortForward" =>
      \A r \in Identified :
         /\ pureCall.body \in {JsonObject([data |-> JsonObject(r)]),
                               JsonObject([data |-> JsonArray(<<JsonObject(r)>>)])}
              => pureResult = Return(mapRawToRule(r))
         /\ pureCall.body = JsonObject(r)
              => pureResult = Throw("UDM Pro API response missing data")

\* a create was answered with the record directly under `data`
C22_Witness ==
    /\ pureCall.fn = "createPortForward"
    /\ \E r \in Identified : pureCall.body = JsonObject([data |-> JsonObject(r)])
    /\ ~pureResult.threw
    /\ pureResult.value.id = "rule-1"

\* C23: create and update fail, with no rule returned, when the response
\* has no payload, `data` is an empty collection, `data` is missing, or the
\* record has no identifier; of a non-empty collection the first record is
\* the one returned.
C23_SingleRecordErrors ==
    SingleRuleCall =>
      LET body == pureCall.body
          data == Member(body, "data")
          fails == pureResult.threw /\ DOMAIN pureResult = {"threw", "error"}
      IN  /\ ~Truthy(body) => fails
          /\ (isArray(data) /\ Len(data.items) = 0) => fails
          /\ (Truthy(body) /\ ~Truthy(data)) => fails
          /\ (isArray(data) /\ Len(data.items) > 0
                /\ missingIdentifier(RawOf(data.items[1]))) => fails
          /\ (~isArray(data) /\ Truthy(data) /\ missingIdentifier(RawOf(data)))
                => fails
          /\ (isArray(data) /\ Len(data.items) > 0
                /\ ~missingIdentifier(RawOf(data.items[1])))
                => pureResult = Return(mapRawToRule(RawOf(data.items[1])))

\* a collection of two different records was answered, the first returned
C23_Witness ==
    /\ pureCall.fn = "updatePortForward"
    /\ isArray(Member(pureCall.body, "data"))
    /\ Len(Member(pureCall.body, "data").items) = 2
    /\ Get(RawOf(Member(pureCall.body, "data").items[1]), "_id", "") = "rule-2"
    /\ Get(RawOf(Member(pureCall.body, "data").items[2]), "_id", "") = "rule-1"
    /\ ~pureResult.threw
    /\ pureResult.value.id = "rule-2"

\* the records of a body in one of the two listed shapes
ListedRecords(body) ==
    IF isArray(body) THEN body.items ELSE Member(body, "data").items

ListedShape(body) == isArray(body) \/ isArray(Member(body, "data"))

\* C24 as stated: listPortForwards returns one rule per record, in order,
\* for a flat array or an object whose `data` is an array, and the empty
\* list for every other shape.
C24_ListShapes ==
    pureCall.fn = "listPortForwards" =>
      /\ ~pureResult.threw
      /\ IF ListedShape(pureCall.body)
           THEN LET records == ListedRecords(pureCall.body) IN
                /\ Len(pureResult.value) = Len(records)
                /\ \A i \in 1..Len(records) :
                      pureResult.value[i] = mapRawToRule(RawOf(records[i]))
           ELSE pureResult.value = <<>>

\* C24, amended: as stated when every record carries an identifier; a
\* record without one makes the whole call fail.
C24_ListShapesIdentified ==
    pureCall.fn = "listPortForwards" =>
      IF ListedShape(pureCall.body)
        THEN LET records == ListedRecords(pureCall.body) IN
             IF \A i \in 1..Len(records) : ~missingIdentifier(RawOf(records[i]))
               THEN /\ ~pureResult.threw
                    /\ Len(pureResult.value) = Len(records)
                    /\ \A i \in 1..Len(records) :
                          pureResult.value[i] = mapRawToRule(RawOf(records[i]))
               ELSE pureResult.threw
        ELSE pureResult = Return(<<>>)

\* a flat array of two different records was listed in its order
C24_Witness ==
    /\ pureCall.fn = "listPortForwards"
    /\ isArray(pureCall.body)
    /\ ~pureResult.threw
    /\ Len(pureResult.value) = 2
    /\ pureResult.value[1].id = "rule-2"
    /\ pureResult.value[2].id = "rule-1"

(* ================= properties: the panel's pagination ================= *)
\* the page answers an array of allocations and announces a later page
Continues(page) ==
    /\ page.type = "page"
    /\ isArray(page.data)
    /\ page.pagination # <<>>
    /\ page.pagination[1].current_page < page.pagination[1].total_pages

\* the first page that does not continue (one past the panel's answers if
\* all of them do)
StopPage(panel) ==
    CHOOSE k \in 1..(Len(panel) + 1) :
       /\ \A j \in 1..(k - 1) : Continues(panel[j])
       /\ k <= Len(panel) => ~Continues(panel[k])

RECURSIVE ConcatPages(_, _)
\* the allocations of pages 1..k, in page order
ConcatPages(panel, k) ==
    IF k = 0 THEN <<>>
    ELSE ConcatPages(panel, k - 1)
           \o [i \in 1..Len(panel[k].data.items) |->
                  Panel(panel[k].data.items[i].attributes.id)]

\* C26: listAllocations requests pages 1, 2, ... in order, stops after the
\* first page that has no pagination metadata or reports current_page >=
\* total_pages, and returns the allocations of the requested pages
\* concatenated in page order; a page whose data is not an array makes the
\* whole call fail, with no partial list.
C26_Pagination ==
    pureCall.fn = "listAllocations" =>
      LET panel == pureCall.panel
          k == StopPage(panel)
          last == PageOf(panel, k)
      IN  /\ pureResult.pages = [i \in 1..k |-> i]
          /\ (last.type = "page" /\ isArray(last.data))
               => /\ ~pureResult.threw
                  /\ pureResult.value = ConcatPages(panel, k)
                  /\ \/ last.pagination = <<>>
                     \/ last.pagination[1].current_page
                          >= last.pagination[1].total_pages
          /\ (last.type = "page" /\ ~isArray(last.data))
               => /\ pureResult.threw
                  /\ "value" \notin DOMAIN pureResult
          /\ last.type = "error" => pureResult.threw

\* two pages of one allocation each were fetched and returned in page order,
\* the second page being the last by its metadata
C26_Witness ==
    /\ pureCall.fn = "listAllocations"
    /\ pureResult.pages = <<1, 2>>
    /\ ~pureResult.threw
    /\ Len(pureResult.value) = 2
    /\ pureResult.value[1].id = 2
    /\ pureResult.value[2].id = 1
    /\ pureCall.panel[2].pagination # <<>>

(* ================== properties: the login, in detail ================== *)
\* the Set-Cookie headers of a login response, as a list
SetCookieList(response) ==
    IF response.setCookie.type = "array" THEN response.setCookie.items
    ELSE IF response.setCookie.type = "string" THEN <<response.setCookie.value>>
    ELSE <<>>

\* the x-csrf-token header of the response, "" when absent or empty
HeaderValue(response) ==
    IF response.xCsrfToken.type = "string" THEN response.xCsrfToken.value
    ELSE IF response.xCsrfToken.type = "array" /\ response.xCsrfToken.items # <<>>
      THEN response.xCsrfToken.items[1]
    ELSE ""

\* the value of the csrf_token cookie the response sets, "" when it sets
\* none (a later Set-Cookie of the same name replaces an earlier one)
CookieValue(response) ==
    LET list == SetCookieList(response)
        at == {i \in 1..Len(list) : list[i].key = "csrf_token"}
    IN  IF at = {} THEN ""
        ELSE list[CHOOSE i \in at : \A j \in at : j <= i].value

EqualButPortsAndFlag(rule, target) ==
    \A f \in DriftFields \ {"internalPort", "externalPort"} :
       ~FieldDiffers(rule, target, f)

\* C32: with all other fields equal, a disabled rule against an enabled
\* request is flagged, an enabled rule against a disabled request is not.
C32_EnabledAsymmetry ==
    (/\ pureCall.fn = "isRuleOutOfSync"
     /\ \A f \in DriftFields : ~FieldDiffers(pureCall.rule, pureCall.target, f)) =>
       /\ (~pureCall.rule.enabled /\ pureCall.target.enabled) => pureResult = TRUE
       /\ (pureCall.rule.enabled /\ ~pureCall.target.enabled) => pureResult = FALSE

\* an enabled rule, equal in every other field, compared with a request
\* that wants it disabled: not flagged
C32_Witness ==
    /\ pureCall.fn = "isRuleOutOfSync"
    /\ \A f \in DriftFields : ~FieldDiffers(pureCall.rule, pureCall.target, f)
    /\ pureCall.rule.enabled /\ ~pureCall.target.enabled
    /\ pureResult = FALSE

\* C33 as stated: the ports are compared by numeric value: with all other
\* fields equal, the rule is flagged exactly when one of its port strings
\* denotes another number than the desired port.
C33_PortsByValue ==
    (/\ pureCall.fn = "isRuleOutOfSync"
     /\ EqualButPortsAndFlag(pureCall.rule, pureCall.target)
     /\ pureCall.rule.enabled = pureCall.target.enabled) =>
       pureResult =
         (\/ ParseInt(pureCall.rule.internalPort) # pureCall.target.internalPort
          \/ ParseInt(pureCall.rule.externalPort) # pureCall.target.externalPort)

\* C33, amended: the rule's port strings are compared with the decimal
\* string of the desired ports: equal strings are not flagged, a string
\* denoting another number is flagged, and so is a string that denotes the
\* same number in another spelling (leading zeros).
C33_PortsByString ==
    (/\ pureCall.fn = "isRuleOutOfSync"
     /\ EqualButPortsAndFlag(pureCall.rule, pureCall.target)
     /\ pureCall.rule.enabled = pureCall.target.enabled) =>
       LET rule == pureCall.rule
           target == pureCall.target
           Canonical(q) == q = NumberToString(ParseInt(q))
       IN  /\ (/\ Canonical(rule.internalPort) /\ Canonical(rule.externalPort)
               /\ ParseInt(rule.internalPort) = target.internalPort
               /\ ParseInt(rule.externalPort) = target.externalPort)
                => pureResult = FALSE
           /\ (\/ ParseInt(rule.internalPort) # target.internalPort
               \/ ParseInt(rule.externalPort) # target.externalPort)
                => pureResult = TRUE
           /\ (~Canonical(rule.internalPort) \/ ~Canonical(rule.externalPort))
                => pureResult = TRUE

\* a rule whose external port is spelled 025, equal to the request for port
\* 25 in everything else: flagged
C33_Witness ==
    /\ pureCall.fn = "isRuleOutOfSync"
    /\ EqualButPortsAndFlag(pureCall.rule, pureCall.target)
    /\ pureCall.rule.enabled = pureCall.target.enabled
    /\ pureCall.rule.externalPort = <<"0", "2", "5">>
    /\ pureCall.rule.internalPort = <<"2", "5">>
    /\ pureResult = TRUE

(* ================= properties: the protocol on the wire =============== *)
\* C34: the wire proto is normalized without regard to case: tcp to tcp,
\* udp to udp, each of both / tcp_udp / tcp-udp to tcp_udp, and every
\* unrecognized or missing value to tcp.
C34_ProtocolNormalization ==
    pureCall.fn = "normalizeProtocol" =>
      pureResult =
        IF pureCall.value \in {"udp", "UDP", "Udp"} THEN "udp"
        ELSE IF pureCall.value \in {"both", "BOTH", "Both",
                                    "tcp_udp", "TCP_UDP", "Tcp_Udp",
                                    "tcp-udp", "TCP-UDP", "Tcp-Udp"}
          THEN "tcp_udp"
        ELSE "tcp"

\* a dual-protocol token spelled with capitals was read as tcp_udp
C34_Witness ==
    /\ pureCall.fn = "normalizeProtocol"
    /\ pureCall.value = "Tcp-Udp"
    /\ pureResult = "tcp_udp"

=============================================================================
